---- MODULE Spec2Model ----
(***************************************************************************)
(* Impact & hazard simulation engine of impactor-2025 (backend/app):       *)
(* economic exposure aggregation (services/economic_analysis.py), seismic  *)
(* and tsunami zone generation (services/physics.py) and the orchestrator  *)
(* simulate_impact (routers/simulate.py).                                  *)
(*                                                                         *)
(* Number representation.  The code computes in floating point; the model  *)
(* computes the same expressions exactly, in fixed units:                  *)
(*   - positions are integer kilometres of arc along one meridian, where   *)
(*     the haversine distance reduces to R * |lat2 - lat1|;                *)
(*   - population is in thousands of people, GDP per capita in units of    *)
(*     500 USD;                                                            *)
(*   - a loss multiplier is in percent (0.95 -> 95), so an economic loss   *)
(*     is carried in hundredths of a GDP unit;                             *)
(*   - a quotient is carried as an exact fraction [num, den].              *)
(***************************************************************************)
EXTENDS Integers, Sequences, FiniteSets, TLC

VARIABLES
    pc,     \* "idle" between requests, "done" once a call has returned
    econ,   \* the last call of calculate_economic_impact: arguments and result
    mmi,    \* the last call of calculate_mmi_zones: arguments and result
    tsu,    \* the last call of calculate_tsunami_zones: arguments and result
    sim,    \* the last run of simulate_impact: request and ImpactResults
    phys,   \* the last direct call of a scalar physics function
    kep,    \* the running call of _solve_kepler_equation: M, e, E, iterations
    defl,   \* the last call of _calculate_deflection_results
    rerun,  \* a second run of simulate_impact on the request of sim
    fetch,   \* the last direct call of fetch_nearby_cities: arguments and result
    memory_cache,   \* CacheService.memory_cache: key -> <<>> or <<[value, expires_at]>>
    now,   \* datetime.now(), in ticks
    last_set,   \* history: per key the last set(key, value, ttl) not deleted or cleared since
    cache_op,   \* the last call on the cache or on NASAClient._make_request
    http    \* the endpoint handler that has just run: what the client receives

vars == <<pc, econ, mmi, tsu, sim, phys, kep, defl, rerun, fetch, memory_cache, now, last_set, cache_op, http>>

\* No call of the function has been made in the current request.
NoCall == [op |-> "none"]

---------------------------------------------------------------------------
(* Bounds of the model and the input domains built from them.              *)

MaxCities == 2          \* longest GeoNames response enumerated
MaxCraterKm == 3        \* largest crater diameter (km) enumerated
MaxBlastKm == 2         \* largest blast radius (km) enumerated

ImpactLatitudes == {0, 1}
FetchLatitudes == {0, 1, -20013}       \* -20013: the antipode of New York
CraterDiametersKm == 0..MaxCraterKm
BlastRadiiKm == 0..MaxBlastKm
TsunamiRadiiKm == {0, 5}
SeismicDistancesKm == {0, 3, 12}
Usernames == {"", "demo", "user"}
Magnitudes == {-2000, 3000, 6500, 9000, 20000}      \* thousandths
MaxDistancesKm == {1, 2, 20, 1000}
MaxHeights == {-5, 0, 1, 10, 100}                   \* dm
TsunamiMaxDistancesKm == {30, 500}
TargetTypes == {"continental_crust", "oceanic_crust", "ocean"}
SimTsunamiHeights == {0, 10}                        \* dm
RepeatedCraterDiametersKm == {0, 1}
TsunamiEnergies == {-4, 0, 1, 100, 40000}           \* units of pi * 9.81e10 J
WaterDepthsM == {4000}
ShoreDistancesM == {-1000, 0, 250, 1000, 100000, 400000}
ShoreSlopes == {-100, 0, 1, 100, 10000}             \* 1/10000
SeismicEnergies == {-5, 0, 1, 1000, 100000}        \* units of 1e15 J
CraterEnergies == {1, 16, 2000}                     \* units of 2.4525e16 J
ImpactAnglesDeg == {0, 1, 30, 45, 90}
DeflectionOrbits ==
    [semi_major_axis : {1, 2}, eccentricity : {0, 2048}, inclination : {0},
     longitude_of_ascending_node : {0}, argument_of_periapsis : {0},
     mean_anomaly : {0, 90}]
DeltaVDirections == {<<0, 0, 0>>, <<0, -1, 0>>, <<-1, -1, 0>>, <<0, 1, 0>>}
DeltaVs == {1, 4096}                                \* units of 1390 m/s
ApplicationTimes == {1, 2}
ImpactVelocities == {2048, 8192}                    \* units of 1390 m/s
AsteroidPositionsKm == {<<7000, 0, 0>>, <<0, 6371, 0>>, <<3000, 4000, 0>>}
AsteroidVelocities == {<<0, 0, 0>>, <<1, 0, 0>>, <<0, -2, 0>>}
DeltaVVectors == {<<0, 0, 0>>, <<0, 1, 0>>}
LeadTimes == {0, 1, 1000}
MeanAnomalies == {0, 25, 71, 2145, 6434, 12868, 20000}   \* 1/4096 rad
Eccentricities == {0, 1024, 2048, 3686, 4096}       \* 1/4096
SemiMajorAxesAU == {-1, 0, 1, 2}
OrbitEccentricities == {-2048, 0, 2048, 4096}       \* 1/4096
InclinationsDeg == {0, 90}
PeriapsisArgumentsDeg == {0, 90}
MeanAnomaliesDeg == {0, 30, 90, 200}

\* Places the GeoNames service may return (name, countryCode, lat, population).
GeoNamesPlaces ==
    { [name |-> "P0",  countryCode |-> "US", lat |-> 0,  population |-> 20],
      [name |-> "P3",  countryCode |-> "ZZ", lat |-> 3,  population |-> 15],
      [name |-> "P4",  countryCode |-> "CD", lat |-> 4,  population |-> 9],
      [name |-> "P12", countryCode |-> "IN", lat |-> 12, population |-> 40] }

RECURSIVE SeqsUpTo(_, _)
SeqsUpTo(S, n) ==
    IF n = 0 THEN {<<>>}
    ELSE LET shorter == SeqsUpTo(S, n - 1)
         IN  shorter \cup { Append(s, x) : s \in shorter, x \in S }

\* What the HTTP request to GeoNames can produce: a failure, or a place list.
ApiResponses ==
    { [status |-> "error"] } \cup
    { [status |-> "ok", geonames |-> s] : s \in SeqsUpTo(GeoNamesPlaces, MaxCities) }

\* The answers enumerated for a whole simulation run.
SimApiResponses ==
    { [status |-> "error"] } \cup
    { [status |-> "ok", geonames |-> s] : s \in SeqsUpTo(GeoNamesPlaces, 1) }

---------------------------------------------------------------------------
(* services/geonames_client.py                                             *)

Abs(x) == IF x < 0 THEN -x ELSE x
Max2(a, b) == IF a >= b THEN a ELSE b

\* min_population argument of get_nearby_cities (10000 people), in thousands.
MinPopulation == 10

\* Static database used when the GeoNames service is unavailable (two of its
\* rows, placed on the model's meridian).
FALLBACK_CITIES ==
    << [name |-> "New York", country |-> "USA", latitude |-> 2,
        population |-> 8336, gdp_per_capita |-> 130],
       [name |-> "Delhi", country |-> "India", latitude |-> 9,
        population |-> 32941, gdp_per_capita |-> 4] >>

\* gdp_map.get(country_code, 5000), in units of 500 USD.
estimate_gdp_per_capita(country_code) ==
    CASE country_code = "US" -> 130
      [] country_code = "IN" -> 4
      [] country_code = "CD" -> 1
      [] OTHER -> 10

RECURSIVE PlacesToCities(_, _)
PlacesToCities(places, min_population) ==
    IF places = <<>> THEN <<>>
    ELSE LET place == Head(places)
             rest == PlacesToCities(Tail(places), min_population)
         IN  IF place.population < min_population THEN rest
             ELSE << [name |-> place.name, country_code |-> place.countryCode,
                      latitude |-> place.lat,
                      population |-> place.population] >> \o rest

\* GeoNamesClient.get_nearby_cities: [] on any failure, else the places with
\* population >= min_population.
get_nearby_cities(response, min_population) ==
    IF response.status # "ok" THEN <<>>
    ELSE PlacesToCities(response.geonames, min_population)

---------------------------------------------------------------------------
(* services/economic_analysis.py                                           *)

\* Haversine distance of two points of the same meridian, in km.
calculate_distance(lat1, lat2) == Abs(lat2 - lat1)

RECURSIVE EnrichWithGdp(_)
EnrichWithGdp(cities) ==
    IF cities = <<>> THEN <<>>
    ELSE LET city == Head(cities)
         IN  << [name |-> city.name, country |-> city.country_code,
                 latitude |-> city.latitude, population |-> city.population,
                 gdp_per_capita |-> estimate_gdp_per_capita(city.country_code)] >>
             \o EnrichWithGdp(Tail(cities))

RECURSIVE FallbackWithin(_, _, _)
FallbackWithin(db, latitude, radius_km) ==
    IF db = <<>> THEN <<>>
    ELSE LET rest == FallbackWithin(Tail(db), latitude, radius_km)
         IN  IF calculate_distance(latitude, Head(db).latitude) <= radius_km
             THEN <<Head(db)>> \o rest
             ELSE rest

\* fetch_nearby_cities: the GeoNames cities when a non-demo username is set
\* and the service returned at least one city, else the fallback database
\* filtered to radius_km.
fetch_nearby_cities(latitude, radius_km, geonames_username, response) ==
    LET cities == IF geonames_username # "" /\ geonames_username # "demo"
                  THEN EnrichWithGdp(get_nearby_cities(response, MinPopulation))
                  ELSE <<>>
    IN  IF cities # <<>> THEN cities
        ELSE FallbackWithin(FALLBACK_CITIES, latitude, radius_km)

\* pi * R for the R = 6371 km of calculate_distance: the distance of a point
\* from its antipode.
HalfCircumferenceKm == 20015

\* How calculate_distance can end.  Within a rounding error of the antipode
\* the haversine term a is 1 up to the last bit, and for some of these points
\* above 1, where math.sqrt(1 - a) raises ValueError.
DistanceOutcomes(lat1, lat2) ==
    IF Abs(lat2 - lat1) = HalfCircumferenceKm THEN {"", "ValueError"} ELSE {""}

\* How fetch_nearby_cities can end: the loop over FALLBACK_CITIES is outside
\* the try block and is not reached when the service returned a city.
FetchOutcomes(latitude, geonames_username, response) ==
    IF geonames_username # "" /\ geonames_username # "demo"
       /\ get_nearby_cities(response, MinPopulation) # <<>>
    THEN {""}
    ELSE UNION { DistanceOutcomes(latitude, FALLBACK_CITIES[k].latitude) :
                   k \in DOMAIN FALLBACK_CITIES }

ExposureLevels == {"extreme", "high", "medium", "low", "minimal"}

\* Variant: the high and medium bands exchanged.
ExposureLevelSwapped(distance, crater_diameter_km, blast_radius_km) ==
    IF distance <= crater_diameter_km THEN "extreme"
    ELSE IF distance <= blast_radius_km THEN "medium"
    ELSE IF distance <= blast_radius_km * 3 THEN "high"
    ELSE IF distance <= blast_radius_km * 10 THEN "low"
    ELSE "minimal"

\* The if/elif chain of calculate_economic_impact.
ExposureLevel(distance, crater_diameter_km, blast_radius_km) ==
    IF distance <= crater_diameter_km THEN "extreme"
    ELSE IF distance <= blast_radius_km THEN "high"
    ELSE IF distance <= blast_radius_km * 3 THEN "medium"
    ELSE IF distance <= blast_radius_km * 10 THEN "low"
    ELSE "minimal"

\* Variant: total destruction is the loss of the whole city GDP.
LossMultiplierWhole(exposure_level) ==
    CASE exposure_level = "extreme" -> 100
      [] exposure_level = "high" -> 50
      [] exposure_level = "medium" -> 20
      [] exposure_level = "low" -> 5
      [] OTHER -> 1

\* loss_multiplier of each branch, in percent.
LossMultiplier(exposure_level) ==
    CASE exposure_level = "extreme" -> 95
      [] exposure_level = "high" -> 50
      [] exposure_level = "medium" -> 20
      [] exposure_level = "low" -> 5
      [] OTHER -> 1

Max4(a, b, c, d) == Max2(Max2(a, b), Max2(c, d))

\* Variant: the seismic distance is left out of the maximum.
TotalImpactRadiusNoSeismic(crater_diameter_km, blast_radius_km, tsunami_radius_km, max_seismic_distance_km) ==
    Max2(Max2(blast_radius_km, tsunami_radius_km), crater_diameter_km * 2)

\* total_impact_radius = max(blast, tsunami, crater_diameter * 2, seismic).
TotalImpactRadius(crater_diameter_km, blast_radius_km, tsunami_radius_km, max_seismic_distance_km) ==
    Max4(blast_radius_km, tsunami_radius_km, crater_diameter_km * 2,
         max_seismic_distance_km)

\* Variant: the loss is taken of the population, not of the city GDP.
CityLossNoGdp(city, exposure_level) ==
    city.population * LossMultiplier(exposure_level)

\* city_gdp * loss_multiplier, in hundredths of a GDP unit.
CityLoss(city, exposure_level) ==
    (city.population * city.gdp_per_capita) * LossMultiplier(exposure_level)

\* Variant: a city is counted once per hazard (blast, seismic) that reaches it.
ProcessCityDoubleCount(acc, city, p) ==
    LET distance == calculate_distance(p.impact_latitude, city.latitude)
        level == ExposureLevel(distance, p.crater_diameter_km, p.blast_radius_km)
        hits == (IF distance <= p.blast_radius_km THEN 1 ELSE 0)
                + (IF distance <= p.max_seismic_distance_km THEN 1 ELSE 0)
    IN  IF distance <= p.total_impact_radius
        THEN [affected_cities |-> Append(acc.affected_cities,
                  [name |-> city.name, country |-> city.country,
                   latitude |-> city.latitude, population |-> city.population,
                   gdp_per_capita |-> city.gdp_per_capita,
                   distance_from_impact |-> distance,
                   exposure_level |-> level]),
              total_population_affected |->
                  acc.total_population_affected + Max2(hits, 1) * city.population,
              total_economic_loss |->
                  acc.total_economic_loss + CityLoss(city, level)]
        ELSE acc

\* One iteration of the loop over major_cities; acc holds affected_cities,
\* total_population_affected and total_economic_loss.
ProcessCity(acc, city, p) ==
    LET distance == calculate_distance(p.impact_latitude, city.latitude)
        level == ExposureLevel(distance, p.crater_diameter_km, p.blast_radius_km)
    IN  IF distance <= p.total_impact_radius
        THEN [affected_cities |-> Append(acc.affected_cities,
                  [name |-> city.name, country |-> city.country,
                   latitude |-> city.latitude, population |-> city.population,
                   gdp_per_capita |-> city.gdp_per_capita,
                   distance_from_impact |-> distance,
                   exposure_level |-> level]),
              total_population_affected |->
                  acc.total_population_affected + city.population,
              total_economic_loss |->
                  acc.total_economic_loss + CityLoss(city, level)]
        ELSE acc

RECURSIVE ProcessCities(_, _, _)
ProcessCities(acc, cities, p) ==
    IF cities = <<>> THEN acc
    ELSE ProcessCities(ProcessCity(acc, Head(cities), p), Tail(cities), p)

RECURSIVE TotalWorldGdp(_)
TotalWorldGdp(cities) ==
    IF cities = <<>> THEN 0
    ELSE Head(cities).population * Head(cities).gdp_per_capita
         + TotalWorldGdp(Tail(cities))

\* Python's a / b: raises ZeroDivisionError when b = 0.
PyDiv(a, b) ==
    IF b = 0 THEN [error |-> "ZeroDivisionError", num |-> 0, den |-> 0]
    ELSE [error |-> "", num |-> a, den |-> b]

\* Variant: the division without its guard.
GdpImpactPercentageUnguarded(total_economic_loss, total_world_gdp) ==
    PyDiv(total_economic_loss, total_world_gdp)

\* (total_economic_loss / total_world_gdp) * 100 if total_world_gdp > 0 else 0.
\* The loss is in hundredths, so the fraction is the percentage itself.
GdpImpactPercentage(total_economic_loss, total_world_gdp) ==
    IF total_world_gdp > 0 THEN PyDiv(total_economic_loss, total_world_gdp)
    ELSE [error |-> "", num |-> 0, den |-> 1]

\* calculate_economic_impact: the arguments, the city list it fetched and the
\* EconomicImpact dictionary it returns (or the exception it raises).
calculate_economic_impact(impact_latitude, crater_diameter_km, blast_radius_km, tsunami_radius_km, max_seismic_distance_km, geonames_username, response) ==
    LET total_impact_radius ==
            TotalImpactRadius(crater_diameter_km, blast_radius_km,
                              tsunami_radius_km, max_seismic_distance_km)
        major_cities == fetch_nearby_cities(impact_latitude, total_impact_radius,
                                            geonames_username, response)
        p == [impact_latitude |-> impact_latitude,
              crater_diameter_km |-> crater_diameter_km,
              blast_radius_km |-> blast_radius_km,
              max_seismic_distance_km |-> max_seismic_distance_km,
              total_impact_radius |-> total_impact_radius]
        acc == ProcessCities([affected_cities |-> <<>>,
                              total_population_affected |-> 0,
                              total_economic_loss |-> 0], major_cities, p)
        total_world_gdp == TotalWorldGdp(major_cities)
        pct == GdpImpactPercentage(acc.total_economic_loss, total_world_gdp)
    IN  [op |-> "calculate_economic_impact",
         impact_latitude |-> impact_latitude,
         crater_diameter_km |-> crater_diameter_km,
         blast_radius_km |-> blast_radius_km,
         tsunami_radius_km |-> tsunami_radius_km,
         max_seismic_distance_km |-> max_seismic_distance_km,
         major_cities |-> major_cities,
         raised |-> pct.error,
         total_economic_loss |-> acc.total_economic_loss,
         population_affected |-> acc.total_population_affected,
         cities_affected |-> acc.affected_cities,
         gdp_impact_percentage |-> pct]

---------------------------------------------------------------------------
(* services/physics.py: zone generation.                                   *)
(*                                                                         *)
(* Units: an MMI value and a magnitude are in thousandths; a sampled       *)
(* distance of calculate_mmi_zones is in 19ths of a km (np.linspace(1,     *)
(* max, 20) has step (max - 1) / 19); a tsunami height is in cm with       *)
(* max_height given in dm, so that height x 100 is the distance in km.     *)

Min2(a, b) == IF a <= b THEN a ELSE b

RECURSIVE Pow2(_)
Pow2(k) == IF k = 0 THEN 1 ELSE 2 * Pow2(k - 1)

FloorLog2[n \in Nat] == IF n < 2 THEN 0 ELSE 1 + FloorLog2[n \div 2]

\* Fraction bits of log2 of a mantissa m in [1, 2), m scaled by 2^14, by
\* repeated squaring.
Log2Frac[m \in Nat, bits \in Nat] ==
    IF bits = 0 THEN 0
    ELSE LET sq == (m * m) \div 16384
         IN  IF sq >= 32768
             THEN Pow2(bits - 1) + Log2Frac[sq \div 2, bits - 1]
             ELSE Log2Frac[sq, bits - 1]

\* log2(n) in 1024ths, for an integer n >= 1.
Log2Fix(n) ==
    FloorLog2[n] * 1024 + Log2Frac[(n * 16384) \div Pow2(FloorLog2[n]), 10]

\* 1.5 * np.log10(dist) in thousandths, dist = dist19 / 19 >= 1:
\* log10(x) = log2(x) * 0.30103.
LogAttenuation(dist19) ==
    ((Log2Fix(dist19) - Log2Fix(19)) * 90309) \div 204800

\* np.linspace(1, max_distance_km, 20)[i], i = 0..19, in 19ths of a km.
MmiSamples == 20
SampleDistance(i, max_distance_km) == 19 + i * (max_distance_km - 1)

\* Variant: the attenuation terms are added instead of subtracted.
MmiAttenuationGrows(magnitude, dist19) ==
    magnitude + LogAttenuation(dist19) + (10 * dist19) \div 19

\* mmi = magnitude - 1.5 * log10(dist) - 0.01 * dist, in thousandths.
MmiAttenuation(magnitude, dist19) ==
    magnitude - LogAttenuation(dist19) - (10 * dist19) \div 19

\* Variant: the value is not clamped.
MmiUnclamped(magnitude, dist19) == MmiAttenuation(magnitude, dist19)

\* max(1, min(12, mmi)), for a sampled distance >= 1 km.
MmiClamped(magnitude, dist19) ==
    Max2(1000, Min2(12000, MmiAttenuation(magnitude, dist19)))

\* np.linspace(0, 2*pi, 32): the number of vertices of a ring.
RingVertices == 32

\* [[lon, lat] for lon, lat in zip(circle_lons, circle_lats)]: vertex k of the
\* ring of radius `radius` around the centre, longitude first.  A coordinate
\* is kept symbolic: the centre, the radius and the index of the angle.
CirclePolygon(center_lat, center_lon, radius) ==
    [k \in 1..RingVertices |->
        << [axis |-> "lon", center |-> center_lon, radius |-> radius, angle |-> k - 1],
           [axis |-> "lat", center |-> center_lat, radius |-> radius, angle |-> k - 1] >>]

\* The zone loop of calculate_mmi_zones from sample i on: one zone per sample,
\* mmi = int(clamped value), in the order of the samples.
RECURSIVE MmiZonesFrom(_, _, _, _, _)
MmiZonesFrom(i, magnitude, epicenter_lat, epicenter_lon, max_distance_km) ==
    IF i >= MmiSamples THEN <<>>
    ELSE LET dist == SampleDistance(i, max_distance_km)
         IN  << [mmi |-> MmiClamped(magnitude, dist) \div 1000,
                 distance_km |-> dist,
                 coordinates |-> CirclePolygon(epicenter_lat, epicenter_lon, dist)] >>
             \o MmiZonesFrom(i + 1, magnitude, epicenter_lat, epicenter_lon,
                             max_distance_km)

\* ImpactPhysics.calculate_mmi_zones: sample 0 is skipped (if i == 0: continue).
calculate_mmi_zones(magnitude, epicenter_lat, epicenter_lon, max_distance_km) ==
    MmiZonesFrom(1, magnitude, epicenter_lat, epicenter_lon, max_distance_km)

\* (max_height * fraction, category) of height_categories, fraction in tenths.
height_categories ==
    << [tenths |-> 8, category |-> "extreme"],
       [tenths |-> 6, category |-> "high"],
       [tenths |-> 4, category |-> "moderate"],
       [tenths |-> 2, category |-> "low"] >>

\* Variant: the reach is not capped.
TsunamiZoneDistanceUncapped(height, max_distance_km) == height

\* distance_km = min(height * 100, max_distance_km), height in cm.
TsunamiZoneDistance(height, max_distance_km) == Min2(height, max_distance_km)

RECURSIVE TsunamiZonesOf(_, _, _, _, _)
TsunamiZonesOf(categories, epicenter_lat, epicenter_lon, max_height, max_distance_km) ==
    IF categories = <<>> THEN <<>>
    ELSE LET height == max_height * Head(categories).tenths
             rest == TsunamiZonesOf(Tail(categories), epicenter_lat, epicenter_lon,
                                    max_height, max_distance_km)
             distance_km == TsunamiZoneDistance(height, max_distance_km)
         IN  IF height <= 0 THEN rest
             ELSE << [height_m |-> height,
                      category |-> Head(categories).category,
                      distance_km |-> distance_km,
                      coordinates |-> CirclePolygon(epicenter_lat, epicenter_lon,
                                                    distance_km)] >> \o rest

\* Variant: the zones in the reverse order, smallest radius first.
TsunamiZonesInnermostFirst(epicenter_lat, epicenter_lon, max_height, max_distance_km) ==
    LET z == TsunamiZonesOf(height_categories, epicenter_lat, epicenter_lon,
                            max_height, max_distance_km)
    IN  [k \in DOMAIN z |-> z[Len(z) + 1 - k]]

\* TsunamiPhysics.calculate_tsunami_zones.
calculate_tsunami_zones(epicenter_lat, epicenter_lon, max_height, max_distance_km) ==
    TsunamiZonesOf(height_categories, epicenter_lat, epicenter_lon,
                   max_height, max_distance_km)

---------------------------------------------------------------------------
(* services/physics.py: scalar physics.                                    *)
(*                                                                         *)
(* A float is carried as [kind, v]: kind "num" with an integer v in the    *)
(* unit of the quantity, or one of the IEEE values "nan", "+inf", "-inf"   *)
(* that numpy returns (with a warning, not an exception) for the square    *)
(* root or logarithm of a negative number and for a division by 0.0.       *)
(* Factors are in thousandths.  For calculate_tsunami_height the energy is *)
(* in units of pi * 9.81e10 J, for which energy_density / (1000 * 9.81) is *)
(* the energy itself; a height is in mm, a distance in m, a slope in       *)
(* 1/10000.                                                                *)

Num(v) == [kind |-> "num", v |-> v]
NaN == [kind |-> "nan", v |-> 0]
PosInf == [kind |-> "+inf", v |-> 0]
NegInf == [kind |-> "-inf", v |-> 0]

\* The values a float can take.
Floats == [kind : {"num", "nan", "+inf", "-inf"}, v : Int]

\* floor(sqrt(n)) by bisection: the root lies in lo .. hi - 1.
SqrtSearch[n \in Nat, lo \in Nat, hi \in Nat] ==
    IF hi - lo <= 1 THEN lo
    ELSE LET mid == (lo + hi) \div 2
         IN  IF mid * mid <= n THEN SqrtSearch[n, mid, hi]
             ELSE SqrtSearch[n, lo, mid]

ISqrt(n) == SqrtSearch[n, 0, 46341]

\* exp(x) for x >= 0 in thousandths: the Taylor series, summed until the
\* term vanishes.
ExpSeries[x \in Nat, n \in Nat, term \in Nat] ==
    IF term = 0 THEN 0
    ELSE term + ExpSeries[x, n + 1, (term * x) \div ((n + 1) * 1000)]

\* exp(-x) in thousandths.
ExpNeg(x) == 1000000 \div ExpSeries[x, 0, 1000]

\* initial_height = 0.1 * sqrt(energy_density / (1000 * 9.81)), in mm.
InitialHeight(impact_energy) ==
    IF impact_energy < 0 THEN NaN ELSE Num(ISqrt(10000 * impact_energy))

\* np.sqrt(shore_slope), in thousandths.
ShoreSlopeRoot(shore_slope) ==
    IF shore_slope < 0 THEN NaN ELSE Num(ISqrt(shore_slope * 100))

\* initial_height * geometric_factor * dissipation_factor * shore_amplification
\* for distance_to_shore > 0, where shore_amplification = 1 / sqrt(slope) is
\* infinite for a slope of 0.
AttenuatedHeight(initial_height, distance_to_shore, shore_slope) ==
    LET geometric_root == ISqrt(distance_to_shore * 1000)
        dissipation_factor == ExpNeg(distance_to_shore \div 100)
        slope_root == ShoreSlopeRoot(shore_slope)
        spread == (initial_height.v * 1000) \div geometric_root
        dissipated == (spread * dissipation_factor) \div 1000
    IN  IF initial_height.kind = "nan" \/ slope_root.kind = "nan"
        THEN NaN
        ELSE IF slope_root.v = 0
        THEN (IF dissipated = 0 THEN NaN ELSE PosInf)
        ELSE Num((dissipated * 1000) \div slope_root.v)

\* A clamp that lets every value through.
ClampKeepsNaN(final_height) == final_height

\* max(0, final_height): Python keeps the first argument unless the second
\* compares greater, so a NaN gives 0.
ClampAtZero(final_height) ==
    IF final_height.kind = "nan" THEN Num(0)
    ELSE IF final_height.kind = "+inf" THEN PosInf
    ELSE Num(Max2(0, final_height.v))

\* TsunamiPhysics.calculate_tsunami_height; water_depth is not used.
calculate_tsunami_height(impact_energy, water_depth, distance_to_shore, shore_slope) ==
    LET initial_height == InitialHeight(impact_energy)
    IN  IF distance_to_shore > 0
        THEN ClampAtZero(AttenuatedHeight(initial_height, distance_to_shore,
                                          shore_slope))
        ELSE ClampAtZero(initial_height)

\* np.log10(n) in thousandths for an integer n >= 1: log2(n) * 0.30103.
Log10Fix(n) == (Log2Fix(n) * 30103) \div 102400

\* ImpactPhysics.calculate_seismic_magnitude, in thousandths, for an energy
\* in units of 1e15 J: seismic_moment = energy * 0.01 and log10(moment) - 16
\* = log10(energy) - 3.  np.log10 gives -inf for 0.0 and NaN below 0.
calculate_seismic_magnitude(energy_joules) ==
    IF energy_joules < 0 THEN NaN
    ELSE IF energy_joules = 0 THEN NegInf
    ELSE Num((2 * (Log10Fix(energy_joules) - 3000)) \div 3 + 6000)

---------------------------------------------------------------------------
(* services/physics.py: OrbitalMechanics.                                  *)
(*                                                                         *)
(* An angle, an anomaly and the eccentricity are in units of 1/4096 (of a  *)
(* radian for the angles), and so are sines and cosines.                   *)

PiFix == 12868              \* pi in 1/4096 rad
MaxIterations == 100        \* max_iterations of _solve_kepler_equation
Tolerance == 2              \* the 1e-10 of the code: a residual below 2/4096

\* sin on [0, pi/2] by its Taylor series up to x^9.
SinQuarter(r) ==
    LET x2 == (r * r) \div 4096
        t3 == (r * x2) \div (4096 * 6)
        t5 == (t3 * x2) \div (4096 * 20)
        t7 == (t5 * x2) \div (4096 * 42)
        t9 == (t7 * x2) \div (4096 * 72)
    IN  r - t3 + t5 - t7 + t9

\* np.sin, reduced to [0, pi/2] by its symmetries.
SinFix(x) ==
    LET r == x % (2 * PiFix)
        h == IF r > PiFix THEN r - PiFix ELSE r
        q == IF 2 * h > PiFix THEN PiFix - h ELSE h
    IN  IF r > PiFix THEN 0 - SinQuarter(q) ELSE SinQuarter(q)

\* np.cos
CosFix(x) == SinFix(x + PiFix \div 2)

\* f = E - e * np.sin(E) - M
KeplerResidual(E, e, M) == E - ((e * SinFix(E)) \div 4096) - M

\* f_prime = 1 - e * np.cos(E)
KeplerDerivative(E, e) == 4096 - ((e * CosFix(E)) \div 4096)

\* abs(f) < 1e-10; false for a NaN or an infinity.
Converged(E, e, M) ==
    /\ E.kind = "num"
    /\ Abs(KeplerResidual(E.v, e, M)) < Tolerance

\* E = E - f / f_prime.  A zero f_prime divides a numpy float by 0.0: the
\* quotient is an infinity, and from an infinity on np.sin gives NaN.
NewtonStep(E, e, M) ==
    IF E.kind # "num" THEN NaN
    ELSE LET f == KeplerResidual(E.v, e, M)
             f_prime == KeplerDerivative(E.v, e)
         IN  IF f_prime = 0 THEN (IF f > 0 THEN NegInf ELSE PosInf)
             ELSE Num(E.v - ((f * 4096) \div f_prime))

\* A loop that never runs out of iterations.
LoopUnbounded(iterations) == FALSE

\* for _ in range(max_iterations): the loop has run out.
LoopExhausted(iterations) == iterations >= MaxIterations

\* The loop of _solve_kepler_equation after `iterations` updates of E.
SolveFrom[E \in Floats, e \in Int, M \in Int, iterations \in Nat] ==
    IF LoopExhausted(iterations) \/ Converged(E, e, M) THEN E
    ELSE SolveFrom[NewtonStep(E, e, M), e, M, iterations + 1]

\* OrbitalMechanics._solve_kepler_equation
solve_kepler_equation(M, e) == SolveFrom[Num(M), e, M, 0]

\* np.radians of an angle in whole degrees.
Radians(degrees) == (degrees * PiFix) \div 180

\* The largest angle t of lo .. hi - 1 with tan(t) <= y / x, for x, y >= 0.
AtanSearch[y \in Nat, x \in Nat, lo \in Nat, hi \in Nat] ==
    IF hi - lo <= 1 THEN lo
    ELSE LET mid == (lo + hi) \div 2
         IN  IF SinFix(mid) * x <= CosFix(mid) * y
             THEN AtanSearch[y, x, mid, hi]
             ELSE AtanSearch[y, x, lo, mid]

\* np.arctan2(y, x), in (-pi, pi].
Atan2Fix(y, x) ==
    LET base == IF y = 0 THEN 0
                ELSE AtanSearch[Abs(y), Abs(x), 0, PiFix \div 2 + 1]
    IN  IF x >= 0 THEN (IF y >= 0 THEN base ELSE 0 - base)
        ELSE (IF y >= 0 THEN PiFix - base ELSE base - PiFix)

\* nu = 2 * arctan2(sqrt(1 + e) * sin(E / 2), sqrt(1 - e) * cos(E / 2)); the
\* square root of a negative number is NaN.
TrueAnomaly(E, e) ==
    IF E.kind # "num" \/ e > 4096 \/ e < -4096 THEN NaN
    ELSE Num(2 * Atan2Fix((ISqrt(4096 * (4096 + e)) * SinFix(E.v \div 2)) \div 4096,
                          (ISqrt(4096 * (4096 - e)) * CosFix(E.v \div 2)) \div 4096))

\* pos_orb: r = a * (1 - e * cos(E)), x_orb = r * cos(nu), y_orb = r * sin(nu),
\* with a in AU and the position in 1/4096 AU.
OrbitalPosition(a, e, E) ==
    LET nu == TrueAnomaly(E, e)
        r == a * KeplerDerivative(E.v, e)
    IN  IF nu.kind # "num" THEN <<NaN, NaN, Num(0)>>
        ELSE <<Num((r * CosFix(nu.v)) \div 4096),
               Num((r * SinFix(nu.v)) \div 4096), Num(0)>>

\* n = np.sqrt(mu / a**3) in units of sqrt(mu / AU^3) / 4096, for a # 0.
MeanMotion(a) ==
    IF a < 0 THEN NaN ELSE Num(ISqrt((4096 * 4096) \div (a * a * a)))

\* vel_orb: vx_orb = -a * n * sin(E) / (1 - e * cos(E)),
\* vy_orb = a * n * sqrt(1 - e^2) * cos(E) / (1 - e * cos(E)); a division of a
\* numpy float by 0.0 is an infinity or NaN, carried as NaN.
OrbitalVelocity(a, e, E) ==
    LET n == MeanMotion(a)
        d == KeplerDerivative(E.v, e)
    IN  IF E.kind # "num" \/ n.kind # "num" \/ d = 0 THEN <<NaN, NaN, Num(0)>>
        ELSE <<Num((0 - a * n.v * SinFix(E.v)) \div d),
               IF e > 4096 \/ e < -4096 THEN NaN
               ELSE Num(((((a * n.v * ISqrt(4096 * 4096 - e * e)) \div 4096)
                          * CosFix(E.v)) \div d))>>
            \o <<Num(0)>>

\* A rotation about the z axis (R_omega, R_w) of an integer vector.
RotateZ(v, angle) ==
    <<(v[1] * CosFix(angle) - v[2] * SinFix(angle)) \div 4096,
      (v[1] * SinFix(angle) + v[2] * CosFix(angle)) \div 4096,
      v[3]>>

\* A rotation about the x axis (R_i) of an integer vector.
RotateX(v, angle) ==
    <<v[1],
      (v[2] * CosFix(angle) - v[3] * SinFix(angle)) \div 4096,
      (v[2] * SinFix(angle) + v[3] * CosFix(angle)) \div 4096>>

\* R_omega @ R_i @ R_w @ v.  A NaN component makes every product NaN.
RotateToInertial(v, i, omega, w) ==
    IF \E k \in 1..3 : v[k].kind # "num" THEN <<NaN, NaN, NaN>>
    ELSE LET rotated == RotateZ(RotateX(RotateZ(<<v[1].v, v[2].v, v[3].v>>, w),
                                        i), omega)
         IN  <<Num(rotated[1]), Num(rotated[2]), Num(rotated[3])>>

\* OrbitalMechanics.kepler_to_cartesian.  The Kepler equation is solved
\* first; mu / a**3 is a division of Python floats, which raises for a = 0.
kepler_to_cartesian(a, e, i, omega, w, M) ==
    LET E == solve_kepler_equation(Radians(M), e)
    IN  IF a = 0
        THEN [raised |-> "ZeroDivisionError", kepler_solved |-> TRUE,
              pos |-> <<>>, vel |-> <<>>]
        ELSE [raised |-> "", kepler_solved |-> TRUE,
              pos |-> RotateToInertial(OrbitalPosition(a, e, E), Radians(i),
                                       Radians(omega), Radians(w)),
              vel |-> RotateToInertial(OrbitalVelocity(a, e, E), Radians(i),
                                       Radians(omega), Radians(w))]

---------------------------------------------------------------------------
(* services/physics.py: ImpactPhysics.calculate_crater_diameter.           *)

\* floor(cbrt(n)) by bisection: the root lies in lo .. hi - 1.
CbrtSearch[n \in Nat, lo \in Nat, hi \in Nat] ==
    IF hi - lo <= 1 THEN lo
    ELSE LET mid == (lo + hi) \div 2
         IN  IF mid * mid * mid <= n THEN CbrtSearch[n, mid, hi]
             ELSE CbrtSearch[n, lo, mid]

\* x ** (1/3) in thousandths for a sine x in 4096ths, 0 <= x <= 4096: the
\* cube root of x / 4096 * 1e9.
CubeRootOfSine(x) == CbrtSearch[x * 244141, 0, 1001]

\* energy_density ** (1/4) for an energy in units of 2.4525e16 J, where
\* energy_density = energy / (2500 * 9.81) is energy * 1e12.
QuarterRootOfDensity(energy_joules) == ISqrt(1000 * ISqrt(energy_joules * 1000000))

\* ImpactPhysics.calculate_crater_diameter for energy >= 0 and an angle of
\* 0 to 180 degrees.  A length is in units of 1/80 mm, in which
\* 1.25 * q * s / 1000 m is 100 * q * s, and diameter / 4 and diameter / 10
\* are exact.
calculate_crater_diameter(energy_joules, impact_angle_deg) ==
    LET sine == SinFix(Radians(impact_angle_deg))
        diameter == 100 * QuarterRootOfDensity(energy_joules) * CubeRootOfSine(sine)
    IN  [sine |-> sine, diameter |-> diameter, depth |-> diameter \div 4,
         rim_height |-> diameter \div 10]

---------------------------------------------------------------------------
(* services/physics.py: DeflectionPhysics, and _calculate_deflection_results *)
(* of routers/simulate.py.                                                 *)
(*                                                                         *)
(* kepler_to_cartesian is free of scale: for a semi-major axis in units of *)
(* U the position is in U / 4096 and the velocity in sqrt(mu / U) / 4096.  *)
(* Here U is 4096 km, so a position is in km (the Earth radius is 6371), a *)
(* velocity in units of 1390 m/s and a time in the unit in which           *)
(* velocity x time is a position.  An energy is in units of half the       *)
(* asteroid mass, a probability an exact fraction [num, den], and so is    *)
(* energy_reduction_percent, in units of 100 percent; a latitude or        *)
(* longitude is in hundredths of a degree.                                 *)

EarthRadiusKm == 6371       \* PhysicsConstants.EARTH_RADIUS_KM

VecAdd(u, v) == <<u[1] + v[1], u[2] + v[2], u[3] + v[3]>>
VecScale(v, k) == <<v[1] * k, v[2] * k, v[3] * k>>
SumSq(v) == v[1] * v[1] + v[2] * v[2] + v[3] * v[3]

\* np.linalg.norm, rounded up to a whole unit: norm > r exactly when the
\* rounded norm > r, for an integer r.
Norm(v) ==
    LET root == ISqrt(SumSq(v))
    IN  IF root * root = SumSq(v) THEN root ELSE root + 1

\* The numbers of a vector of floats that holds no NaN.
VecValue(v) == <<v[1].v, v[2].v, v[3].v>>

\* A deflection that changes the velocity and leaves the position alone.
ApplyDeflectionInPlace(initial_pos, initial_vel, delta_v, time_before_impact) ==
    [pos |-> initial_pos, vel |-> VecAdd(initial_vel, delta_v)]

\* DeflectionPhysics.apply_deflection
apply_deflection(initial_pos, initial_vel, delta_v, time_before_impact) ==
    LET new_vel == VecAdd(initial_vel, delta_v)
    IN  [pos |-> VecAdd(initial_pos, VecScale(new_vel, time_before_impact)),
         vel |-> new_vel]

\* DeflectionPhysics.calculate_miss_distance with the default earth_pos and
\* earth_radius; asteroid_vel is not used.
calculate_miss_distance(asteroid_pos, asteroid_vel) ==
    Norm(asteroid_pos) - EarthRadiusKm

\* The result of the except branch of _calculate_deflection_results.
MinimalDeflectionResults ==
    [miss_distance_km |-> 0,
     impact_probability |-> [num |-> 1, den |-> 1],
     new_impact_latitude |-> <<>>,
     new_impact_longitude |-> <<>>,
     energy_reduction_percent |-> [num |-> 0, den |-> 1],
     population_exposure_reduction |-> 0,
     strategy_efficiency |-> 0,
     required_lead_time_days |-> 0]

\* A model without bounds on its fields: every value is accepted.
AcceptAnyProbability(impact_probability) == ""

\* DeflectionResults(...): pydantic refuses an impact_probability outside
\* [0, 1] (the other bounded field, strategy_efficiency, is min(1.0, .) of a
\* positive number).
ValidationOutcome(impact_probability) ==
    IF impact_probability.num > impact_probability.den
       \/ impact_probability.num < 0
    THEN "ValidationError" ELSE ""

\* _calculate_deflection_results.  `miss_distance` is the local of that name
\* (line 206), `raised` the exception the try block ended with, `returned`
\* the DeflectionResults handed to the caller and `failure` what is reported
\* to the caller as a failure: nothing, since the except branch returns a
\* result too.  deflection_angle_deg, on which no branch depends, is not
\* carried.
calculate_deflection_results(scenario, deflection, baseline_results) ==
    LET orbit == scenario.orbit
        delta_v_vector == VecScale(deflection.delta_v_direction,
                                   deflection.delta_v)
        Deflected(state) ==
            apply_deflection(VecValue(state.pos), VecValue(state.vel),
                             delta_v_vector, deflection.application_time)
        Results(deflected) ==
            LET miss_distance ==
                    calculate_miss_distance(deflected.pos, deflected.vel)
                new_energy == SumSq(deflected.vel)
                impact_probability ==
                    IF miss_distance > 0 THEN [num |-> 0, den |-> 1]
                    ELSE [num |-> new_energy,
                          den |-> baseline_results.impact_energy_joules]
                still_impacts == impact_probability.num > 0
                raised == ValidationOutcome(impact_probability)
            IN  [miss_distance |-> miss_distance,
                 raised |-> raised,
                 failure |-> <<>>,
                 returned |->
                    IF raised # "" THEN MinimalDeflectionResults
                    ELSE [miss_distance_km |-> miss_distance,
                          impact_probability |-> impact_probability,
                          new_impact_latitude |->
                             IF still_impacts
                             THEN <<scenario.impact_latitude
                                      + delta_v_vector[2] * 1390>>
                             ELSE <<>>,
                          new_impact_longitude |->
                             IF still_impacts
                             THEN <<scenario.impact_longitude
                                      + delta_v_vector[1] * 1390>>
                             ELSE <<>>,
                          energy_reduction_percent |->
                             [num |-> Max2(0, impact_probability.den
                                               - impact_probability.num),
                              den |-> impact_probability.den],
                          population_exposure_reduction |->
                             (baseline_results.exposed_population
                                * (impact_probability.den
                                     - impact_probability.num))
                             \div impact_probability.den,
                          strategy_efficiency |->
                             Min2(1, deflection.delta_v * 1390),
                          required_lead_time_days |->
                             deflection.application_time]]
    IN  CHOOSE results \in
            { Results(deflected) :
                deflected \in
                    { Deflected(state) :
                        state \in {kepler_to_cartesian(
                                      orbit.semi_major_axis, orbit.eccentricity,
                                      orbit.inclination,
                                      orbit.longitude_of_ascending_node,
                                      orbit.argument_of_periapsis,
                                      orbit.mean_anomaly)} } } : TRUE

---------------------------------------------------------------------------
(* services/physics.py: OrbitalMechanics.propagate_orbit.                  *)
(*                                                                         *)
(* A state of kepler_to_cartesian has its position in U / 4096 and its     *)
(* velocity in sqrt(mu / U) / 4096; dt is in units of sqrt(U^3 / mu), in   *)
(* which velocity x dt is a position and -mu * pos / r**3 * dt is          *)
(* 4096^3 * pos * dt / r^3 in units of velocity.                           *)

PropagationSteps == {0, 1, 2}

\* The sum of two floats, either a number or NaN.
FloatAdd(x, y) ==
    IF x.kind = "num" /\ y.kind = "num" THEN Num(x.v + y.v) ELSE NaN

\* acceleration * dt for one component: -mu * pos / r**3 * dt.  A division
\* by r = 0.0 gives an infinity or NaN, and either times dt = 0 is NaN.
VelocityChange(component, r, dt) ==
    IF component.kind # "num" \/ r.kind # "num" THEN NaN
    ELSE IF r.v = 0 THEN NaN
    ELSE Num(0 - ((((((4096 * component.v) \div r.v) * 4096) \div r.v)
                     * 4096 * dt) \div r.v))

\* A position change that leaves the time step out.
DisplacementOfUnitStep(velocity, dt) == velocity

\* new_vel * dt for one component.
Displacement(velocity, dt) ==
    IF velocity.kind # "num" THEN NaN ELSE Num(velocity.v * dt)

\* np.linalg.norm of a vector of floats.
FloatNorm(v) ==
    IF \E k \in 1..3 : v[k].kind # "num" THEN NaN ELSE Num(Norm(VecValue(v)))

\* OrbitalMechanics.propagate_orbit: one Euler step.
propagate_orbit(pos, vel, dt) ==
    LET r == FloatNorm(pos)
        new_vel == [k \in 1..3 |-> FloatAdd(vel[k], VelocityChange(pos[k], r, dt))]
        new_pos == [k \in 1..3 |-> FloatAdd(pos[k], Displacement(new_vel[k], dt))]
    IN  [pos |-> new_pos, vel |-> new_vel]

---------------------------------------------------------------------------
(* services/physics.py: ImpactPhysics mass, energy and TNT equivalent.     *)
(*                                                                         *)
(* A diameter is in m, a density in kg/m3, a velocity in km/s, a mass in   *)
(* tonnes, an energy in GJ (1e9 J) and a TNT equivalent in thousandths of  *)
(* a megaton.                                                              *)

AsteroidDiametersM == {100, 160}
AsteroidDensities == {2000, 3000}
ImpactSpeedsKmS == {11, 15}

\* PhysicsConstants.TNT_TO_JOULES = 4.184e15 J per megaton: GJ per
\* thousandth of a megaton.
TntToJoules == 4184

\* ImpactPhysics.calculate_mass: density * (4/3) * pi * (diameter / 2)**3.
calculate_mass(diameter, density) ==
    LET radius == diameter \div 2
        volume == (PiFix * ((radius * radius * radius) \div 64)) \div 48
    IN  (volume \div 100) * (density \div 10)

\* ImpactPhysics.calculate_kinetic_energy: 0.5 * mass * velocity**2.
calculate_kinetic_energy(mass, velocity) == (mass * velocity * velocity) \div 2

\* The energy divided by the joules of a gigaton of TNT.
GigatonEquivalent(energy_joules) == energy_joules \div (1000 * TntToJoules)

\* ImpactPhysics.calculate_tnt_equivalent: energy / TNT_TO_JOULES.
calculate_tnt_equivalent(energy_joules) == energy_joules \div TntToJoules

---------------------------------------------------------------------------
(* routers/simulate.py                                                     *)
(*                                                                         *)
(* The scalar physics of a scenario (crater diameter, blast radius,        *)
(* seismic magnitude, tsunami height) are power laws and logarithms of the  *)
(* impact energy; simulate_impact takes their values as they come, so the  *)
(* model draws them from bounded sets.  The crater diameter is in metres,  *)
(* a multiple of 1000.                                                     *)

RECURSIVE MaxOf(_, _)
MaxOf(values, default) ==
    IF values = <<>> THEN default
    ELSE LET m == MaxOf(Tail(values), default)
         IN  IF Tail(values) = <<>> THEN Head(values) ELSE Max2(Head(values), m)

\* max(zone.get("distance", 0) for zone in tsunami_zones): a zone dictionary
\* has the keys type, properties and geometry, so every lookup is the default.
ZoneGetDistance(zone) == 0

\* Seismic effects: the MMI zones, computed only if include_seismic.
SeismicZones(request, physics) ==
    IF request.include_seismic
    THEN calculate_mmi_zones(physics.seismic_magnitude,
                             request.scenario.impact_latitude,
                             request.scenario.impact_longitude, 1000)
    ELSE <<>>

\* Tsunami effects: computed only if include_tsunami and the target is water.
\* An Optional value is <<>> (None) or <<v>>.
TsunamiEffects(request, physics) ==
    LET scenario == request.scenario
        wet == request.include_tsunami
                   /\ scenario.target_type \in {"ocean", "oceanic_crust"}
        tsunami_zones == IF wet
                         THEN calculate_tsunami_zones(scenario.impact_latitude,
                                  scenario.impact_longitude, physics.tsunami_height, 500)
                         ELSE <<>>
    IN  [tsunami_height |-> IF wet THEN <<physics.tsunami_height>> ELSE <<>>,
         tsunami_zones |-> tsunami_zones,
         affected_coastline |-> IF wet THEN <<Len(tsunami_zones) * 50>> ELSE <<>>,
         tsunami_radius |->
            IF wet /\ tsunami_zones # <<>>
            THEN MaxOf([k \in DOMAIN tsunami_zones |->
                           ZoneGetDistance(tsunami_zones[k])], 0)
            ELSE 0]

\* max_seismic_distance_km: the largest distance_km of the MMI zones (the
\* last sample, a whole number of km), 1000 when there is no zone.
MaxSeismicDistanceKm(mmi_zones) ==
    IF mmi_zones # <<>>
    THEN MaxOf([k \in DOMAIN mmi_zones |-> mmi_zones[k].distance_km], 0) \div 19
    ELSE 1000

\* The arguments simulate_impact passes to calculate_economic_impact.
EconomicImpactOf(request, physics, tsunami, mmi_zones, geonames_username, response) ==
    calculate_economic_impact(request.scenario.impact_latitude,
                              physics.crater_diameter \div 1000,
                              physics.blast_radius,
                              tsunami.tsunami_radius,
                              MaxSeismicDistanceKm(mmi_zones),
                              geonames_username, response)

\* The ImpactResults record simulate_impact builds.  estimated_damage is
\* computed from exposed_population while that is still 0.
ImpactResults(request, physics, mmi_zones, tsunami, economic_impact) ==
    [op |-> "simulate_impact",
     request |-> request,
     crater_diameter_m |-> physics.crater_diameter,
     seismic_magnitude |-> physics.seismic_magnitude,
     mmi_zones |-> mmi_zones,
     tsunami_height_m |-> tsunami.tsunami_height,
     tsunami_zones |-> tsunami.tsunami_zones,
     affected_coastline_km |-> tsunami.affected_coastline,
     exposed_population |-> economic_impact.population_affected,
     affected_cities |-> economic_impact.cities_affected,
     estimated_damage_usd |-> 0,
     total_economic_loss_usd |-> economic_impact.total_economic_loss,
     total_population_affected |-> economic_impact.population_affected,
     gdp_impact_percentage |-> economic_impact.gdp_impact_percentage]

---------------------------------------------------------------------------
(* src/backend: calculate_population_loss, of PopulationImpact             *)
(* (physics_calculations.py) and of PhysicsEngine (main.py).               *)
(*                                                                         *)
(* An energy is in units of 4.184e14 J (1e5 of the TNT unit the code       *)
(* divides by), a crater diameter in km, a latitude or longitude in        *)
(* hundredths of a degree (<<>> for None), a population of a zone in       *)
(* tenths of a person, a mortality in percent and a location factor in     *)
(* tenths.                                                                 *)

ImpactEnergiesTnt == {-1, 0, 9, 10, 500, 5000, 20000}
AffectedPopulations == {-10, 0, 7, 1000, 20000}
LossCraterDiametersKm == {0, 1, 3}
Locations ==
    { [latitude |-> <<>>, longitude |-> <<>>],
      [latitude |-> <<4071>>, longitude |-> <<-7401>>],     \* New York
      [latitude |-> <<3500>>, longitude |-> <<-7000>>],     \* off Cape Hatteras
      [latitude |-> <<0>>, longitude |-> <<0>>] }

\* int(x) of x = numerator / denominator: the fraction is dropped, towards 0.
PyInt(numerator, denominator) ==
    IF numerator >= 0 THEN numerator \div denominator
    ELSE 0 - ((0 - numerator) \div denominator)

\* crater_area * 100 = pi * (crater_diameter / 2) ** 2 * 100, in tenths.
CraterAreaPopulation(crater_diameter) ==
    (PiFix * crater_diameter * crater_diameter * 250) \div 4096

\* math.pi * blast_radius ** 2 * 50 for blast_radius = crater_diameter * 5,
\* in tenths.
BlastAreaPopulation(crater_diameter) ==
    (PiFix * crater_diameter * crater_diameter * 12500) \div 4096

\* The index of the branch the TNT equivalent selects: 1 below 1e6, 2 below
\* 1e7, 3 below 1e8, 4 below 1e9, 5 otherwise.
TntBand(impact_energy) ==
    IF impact_energy < 10 THEN 1
    ELSE IF impact_energy < 100 THEN 2
    ELSE IF impact_energy < 1000 THEN 3
    ELSE IF impact_energy < 10000 THEN 4
    ELSE 5

\* The major_cities table of get_location_mortality_factor.
MortalityMajorCities ==
    << <<3990, 11641>>, <<3123, 12147>>, <<3568, 13965>>, <<4071, -7401>>,
       <<5151, -13>>, <<4886, 235>> >>

\* coastal_regions of _is_coastal_region: min_lat, max_lat, min_lng, max_lng.
CoastalRegions ==
    << <<3000, 5000, -18000, -6000>>, <<2500, 5000, -13000, -6000>>,
       <<3000, 6000, -1000, 4000>>, <<2000, 5000, 10000, 18000>>,
       <<-4000, 2000, -8000, -3000>>, <<-4000, -1000, 11000, 16000>> >>

\* PopulationImpact._is_coastal_region
is_coastal_region(latitude, longitude) ==
    \E k \in DOMAIN CoastalRegions :
        /\ CoastalRegions[k][1] <= latitude
        /\ latitude <= CoastalRegions[k][2]
        /\ CoastalRegions[k][3] <= longitude
        /\ longitude <= CoastalRegions[k][4]

\* PopulationImpact.get_location_mortality_factor, in tenths.  A distance of
\* sqrt(dlat**2 + dlng**2) * 111 < 100 km is dlat^2 + dlng^2 < 8116 in
\* hundredths of a degree.
get_location_mortality_factor(latitude, longitude) ==
    IF latitude = <<>> \/ longitude = <<>> THEN 10
    ELSE IF \E k \in DOMAIN MortalityMajorCities :
               (latitude[1] - MortalityMajorCities[k][1])
                   * (latitude[1] - MortalityMajorCities[k][1])
               + (longitude[1] - MortalityMajorCities[k][2])
                   * (longitude[1] - MortalityMajorCities[k][2]) < 8116
    THEN 8
    ELSE IF is_coastal_region(latitude[1], longitude[1]) THEN 12
    ELSE 7

\* blast_mortality and seismic_mortality of each branch, in percent.
BlastMortality(band) == <<80, 90, 95, 98, 99>>[band]
SeismicMortality(band) == <<10, 20, 30, 40, 50>>[band]

\* mortality_rate of each branch of PhysicsEngine, in percent.
MortalityRate(band) == <<1, 5, 15, 35, 60>>[band]

\* PopulationImpact.calculate_population_loss
PopulationImpact_calculate_population_loss(impact_energy, affected_population, crater_diameter, latitude, longitude) ==
    IF affected_population <= 0 THEN 0
    ELSE
    LET band == TntBand(impact_energy)
        location_factor == get_location_mortality_factor(latitude, longitude)
        crater_population == Min2(affected_population,
                                  CraterAreaPopulation(crater_diameter))
        blast_population == Min2(affected_population * 3,
                                 BlastAreaPopulation(crater_diameter))
        seismic_population == affected_population * 10 - crater_population
                                  - blast_population
        crater_loss == PyInt(crater_population, 10)
        blast_loss == PyInt(blast_population * BlastMortality(band)
                                * location_factor, 10000)
        seismic_loss == PyInt(seismic_population * SeismicMortality(band)
                                  * location_factor, 10000)
        total_loss == crater_loss + blast_loss + seismic_loss
    IN  Min2(total_loss, affected_population)

\* PhysicsEngine.calculate_population_loss
PhysicsEngine_calculate_population_loss(impact_energy, affected_population, crater_diameter) ==
    LET mortality_rate == MortalityRate(TntBand(impact_energy))
        crater_population == Min2(affected_population,
                                  CraterAreaPopulation(crater_diameter))
        total_loss == PyInt(crater_population * 100
                                + (affected_population * 10 - crater_population)
                                      * mortality_rate, 1000)
    IN  Min2(total_loss, affected_population)

---------------------------------------------------------------------------
(* services/cache.py: CacheService without Redis (use_redis is False, or    *)
(* no client was connected), and NASAClient._make_request.                 *)
(*                                                                         *)
(* Time is in ticks of datetime.now().  A cache value is a string; an      *)
(* Optional value is <<>> (None) or <<v>>.                                 *)

MaxClock == 3           \* the clock stops here

\* The last instant a datetime can hold (datetime.max), in ticks: now + ttl
\* beyond it raises OverflowError.
DatetimeMax == 50

\* settings.cache_max_size: set cleans up when more entries are stored.
CacheMaxSize == 1

DirectKeys == {"k"}
AsteroidIds == {"1"}
Endpoints == { "neo/" \o asteroid_id : asteroid_id \in AsteroidIds }
CacheValues == {"a", "b"}
Ttls == {0, 1, 2, 100}
NasaKey(endpoint) == "nasa:" \o endpoint
CacheKeys == DirectKeys \cup { NasaKey(endpoint) : endpoint \in Endpoints }

EmptyCache == [key \in CacheKeys |-> <<>>]

\* CacheService.get, in-memory branch: the value of a stored entry whose
\* expires_at is after now; an entry that is not is deleted.
CacheGet(store, key, t) ==
    IF store[key] # <<>>
    THEN IF store[key][1].expires_at > t
         THEN [result |-> <<store[key][1].value>>, store |-> store]
         ELSE [result |-> <<>>, store |-> [store EXCEPT ![key] = <<>>]]
    ELSE [result |-> <<>>, store |-> store]

\* CacheService._cleanup_memory_cache: the entries with expires_at <= now go.
CleanupMemoryCache(store, t) ==
    [key \in CacheKeys |->
        IF store[key] # <<>> /\ store[key][1].expires_at <= t THEN <<>>
        ELSE store[key]]

\* CacheService.set, in-memory branch.  datetime.now() + timedelta(seconds=
\* ttl) raises OverflowError past datetime.max; the except branch prints it
\* and the store is left as it was.
CacheSet(store, key, value, ttl, t) ==
    IF t + ttl > DatetimeMax THEN store
    ELSE LET stored == [store EXCEPT
                           ![key] = <<[value |-> value, expires_at |-> t + ttl]>>]
         IN  IF Cardinality({k \in CacheKeys : stored[k] # <<>>}) > CacheMaxSize
             THEN CleanupMemoryCache(stored, t)
             ELSE stored

\* CacheService.delete, in-memory branch.
CacheDelete(store, key) == [store EXCEPT ![key] = <<>>]

\* settings.cache_ttl_seconds (3600 s), in ticks.
CacheTtlSeconds == 2

\* What the NASA service can answer: a JSON body, or a failure that httpx
\* reports as an HTTPError.
ResponseBodies == {"{}", "[]", "{neo}"}
HttpOutcomes == ResponseBodies \cup {"HTTPError"}

\* The truth value of a JSON body in `if cached_result:`: an empty object or
\* list is false.
Truthy(body) == body \notin {"{}", "[]"}

\* `if cached_result:` on the Optional value CacheService.get returned.
IsCached(cached_result) == cached_result # <<>> /\ Truthy(cached_result[1])

\* NASAClient._make_request at time t, with the outcome of the HTTP request
\* it would issue.  `store` is the cache afterwards, `stored` whether
\* cache.set was called.
make_request(store, endpoint, t, outcome) ==
    LET cache_key == NasaKey(endpoint)
        got == CacheGet(store, cache_key, t)
    IN  IF IsCached(got.result)
        THEN [http_issued |-> FALSE, raised |-> "", result |-> got.result,
              stored |-> FALSE, store |-> got.store]
        ELSE IF outcome = "HTTPError"
        THEN [http_issued |-> TRUE, raised |-> "Exception", result |-> <<>>,
              stored |-> FALSE, store |-> got.store]
        ELSE [http_issued |-> TRUE, raised |-> "", result |-> <<outcome>>,
              stored |-> TRUE,
              store |-> CacheSet(got.store, cache_key, outcome,
                                 CacheTtlSeconds, t)]

\* NASAClient.get_asteroid_by_id: the asteroid parsed from the body, or None
\* (<<>>) when _make_request raised or the body is not an object (.get on a
\* list raises AttributeError in _parse_asteroid and again in its except
\* branch).  `made` is the call of _make_request.
get_asteroid_by_id(store, asteroid_id, t, outcome) ==
    LET made == make_request(store, "neo/" \o asteroid_id, t, outcome)
    IN  [made |-> made,
         asteroid |->
            IF made.raised # "" THEN <<>>
            ELSE IF made.result[1] = "[]" THEN <<>>
            ELSE <<made.result[1]>>]

\* What the client receives from a handler whose body is wrapped in
\* `try: ... except Exception as e: raise HTTPException(status_code=500)`:
\* an HTTPException raised in the body is an Exception, so it is caught and
\* replaced.  raised_status is the status of the HTTPException the body
\* raised, 0 when it raised none.
ClientStatus(raised_status) == IF raised_status # 0 THEN 500 ELSE 200

---------------------------------------------------------------------------
(* State machine: one request at a time, each a call of one operation.     *)

Init ==
    /\ pc = "idle"
    /\ econ = NoCall
    /\ mmi = NoCall
    /\ tsu = NoCall
    /\ sim = NoCall
    /\ phys = NoCall
    /\ kep = NoCall
    /\ defl = NoCall
    /\ rerun = NoCall
    /\ fetch = NoCall
    /\ memory_cache = EmptyCache
    /\ now = 0
    /\ last_set = EmptyCache
    /\ cache_op = NoCall
    /\ http = NoCall

\* A direct call of calculate_economic_impact.
CalculateEconomicImpact ==
    /\ pc = "idle"
    /\ \E lat \in ImpactLatitudes, c \in CraterDiametersKm, b \in BlastRadiiKm,
          t \in TsunamiRadiiKm, s \in SeismicDistancesKm, u \in Usernames :
          \E r \in (IF u \in {"", "demo"} THEN {[status |-> "error"]}
                    ELSE ApiResponses) :
             econ' = calculate_economic_impact(lat, c, b, t, s, u, r)
    /\ pc' = "done"
    /\ UNCHANGED <<mmi, tsu, sim, phys, kep, defl, rerun, fetch, memory_cache, now, last_set, cache_op, http>>

\* A direct call of fetch_nearby_cities with the answer of the GeoNames
\* service, which is called only for a username other than "" and "demo".
\* A call that raises returns no list.
FetchNearbyCities ==
    /\ pc = "idle"
    /\ \E lat \in FetchLatitudes, radius \in SeismicDistancesKm,
          u \in Usernames :
          \E r \in (IF u \in {"", "demo"} THEN {[status |-> "error"]}
                    ELSE ApiResponses) :
             \E raised \in FetchOutcomes(lat, u, r) :
                fetch' = [op |-> "fetch_nearby_cities", latitude |-> lat,
                          radius_km |-> radius, geonames_username |-> u,
                          response |-> r, raised |-> raised,
                          cities |-> IF raised = ""
                                     THEN fetch_nearby_cities(lat, radius, u, r)
                                     ELSE <<>>]
    /\ pc' = "done"
    /\ UNCHANGED <<econ, mmi, tsu, sim, phys, kep, defl, rerun, memory_cache, now, last_set, cache_op, http>>

\* A direct call of ImpactPhysics.calculate_mmi_zones.
CalculateMmiZones ==
    /\ pc = "idle"
    /\ \E m \in Magnitudes, lat \in ImpactLatitudes, d \in MaxDistancesKm :
          mmi' = [op |-> "calculate_mmi_zones", magnitude |-> m,
                  epicenter_lat |-> lat, epicenter_lon |-> 0,
                  max_distance_km |-> d,
                  zones |-> calculate_mmi_zones(m, lat, 0, d)]
    /\ pc' = "done"
    /\ UNCHANGED <<econ, tsu, sim, phys, kep, defl, rerun, fetch, memory_cache, now, last_set, cache_op, http>>

\* A direct call of TsunamiPhysics.calculate_tsunami_zones.
CalculateTsunamiZones ==
    /\ pc = "idle"
    /\ \E h \in MaxHeights, lat \in ImpactLatitudes, d \in TsunamiMaxDistancesKm :
          tsu' = [op |-> "calculate_tsunami_zones", max_height |-> h,
                  epicenter_lat |-> lat, epicenter_lon |-> 0,
                  max_distance_km |-> d,
                  zones |-> calculate_tsunami_zones(lat, 0, h, d)]
    /\ pc' = "done"
    /\ UNCHANGED <<econ, mmi, sim, phys, kep, defl, rerun, fetch, memory_cache, now, last_set, cache_op, http>>

\* A direct call of TsunamiPhysics.calculate_tsunami_height.
CalculateTsunamiHeight ==
    /\ pc = "idle"
    /\ \E e \in TsunamiEnergies, w \in WaterDepthsM, d \in ShoreDistancesM,
          s \in ShoreSlopes :
          phys' = [op |-> "calculate_tsunami_height", impact_energy |-> e,
                   water_depth |-> w, distance_to_shore |-> d,
                   shore_slope |-> s,
                   result |-> calculate_tsunami_height(e, w, d, s)]
    /\ pc' = "done"
    /\ UNCHANGED <<econ, mmi, tsu, sim, kep, defl, rerun, fetch, memory_cache, now, last_set, cache_op, http>>

\* A direct call of ImpactPhysics.calculate_crater_diameter with an angle the
\* scenario model accepts.
CalculateCraterDiameter ==
    /\ pc = "idle"
    /\ \E e \in CraterEnergies, angle \in ImpactAnglesDeg :
          \E crater \in {calculate_crater_diameter(e, angle)} :
             phys' = [op |-> "calculate_crater_diameter", energy_joules |-> e,
                      impact_angle_deg |-> angle, sine |-> crater.sine,
                      diameter |-> crater.diameter, depth |-> crater.depth,
                      rim_height |-> crater.rim_height]
    /\ pc' = "done"
    /\ UNCHANGED <<econ, mmi, tsu, sim, kep, defl, rerun, fetch, memory_cache, now, last_set, cache_op, http>>

\* A direct call of ImpactPhysics.calculate_seismic_magnitude; the function
\* has no statement that raises.
CalculateSeismicMagnitude ==
    /\ pc = "idle"
    /\ \E e \in SeismicEnergies :
          phys' = [op |-> "calculate_seismic_magnitude", energy_joules |-> e,
                   raised |-> "",
                   result |-> <<calculate_seismic_magnitude(e)>>]
    /\ pc' = "done"
    /\ UNCHANGED <<econ, mmi, tsu, sim, kep, defl, rerun, fetch, memory_cache, now, last_set, cache_op, http>>

\* A direct call of OrbitalMechanics.kepler_to_cartesian.
KeplerToCartesian ==
    /\ pc = "idle"
    /\ \E a \in SemiMajorAxesAU, e \in OrbitEccentricities,
          i \in InclinationsDeg, w \in PeriapsisArgumentsDeg,
          M \in MeanAnomaliesDeg :
          \E state \in {kepler_to_cartesian(a, e, i, 0, w, M)} :
             phys' = [op |-> "kepler_to_cartesian", a |-> a, e |-> e, i |-> i,
                      omega |-> 0, w |-> w, M |-> M,
                      raised |-> state.raised,
                      kepler_solved |-> state.kepler_solved,
                      pos |-> state.pos, vel |-> state.vel]
    /\ pc' = "done"
    /\ UNCHANGED <<econ, mmi, tsu, sim, kep, defl, rerun, fetch, memory_cache, now, last_set, cache_op, http>>

\* A call of OrbitalMechanics._solve_kepler_equation: E = M, no update yet.
SolveKeplerStart ==
    /\ pc = "idle"
    /\ \E M \in MeanAnomalies, e \in Eccentricities :
          kep' = [op |-> "_solve_kepler_equation", M |-> M, e |-> e,
                  E |-> Num(M), iterations |-> 0, result |-> <<>>]
    /\ pc' = "solving"
    /\ UNCHANGED <<econ, mmi, tsu, sim, phys, defl, rerun, fetch, memory_cache, now, last_set, cache_op, http>>

\* One pass of the loop that does not break: E = E - f / f_prime.
SolveKeplerIterate ==
    /\ pc = "solving"
    /\ ~LoopExhausted(kep.iterations)
    /\ ~Converged(kep.E, kep.e, kep.M)
    /\ kep' = [kep EXCEPT !.E = NewtonStep(kep.E, kep.e, kep.M),
                          !.iterations = @ + 1]
    /\ UNCHANGED <<pc, econ, mmi, tsu, sim, phys, defl, rerun, fetch, memory_cache, now, last_set, cache_op, http>>

\* The loop breaks or runs out: return E.
SolveKeplerReturn ==
    /\ pc = "solving"
    /\ LoopExhausted(kep.iterations) \/ Converged(kep.E, kep.e, kep.M)
    /\ kep' = [kep EXCEPT !.result = <<kep.E>>]
    /\ pc' = "done"
    /\ UNCHANGED <<econ, mmi, tsu, sim, phys, defl, rerun, fetch, memory_cache, now, last_set, cache_op, http>>

\* A direct call of DeflectionPhysics.apply_deflection, followed by
\* calculate_miss_distance on the state it returns.
ApplyDeflection ==
    /\ pc = "idle"
    /\ \E pos \in AsteroidPositionsKm, vel \in AsteroidVelocities,
          dv \in DeltaVVectors, t \in LeadTimes :
          \E deflected \in {apply_deflection(pos, vel, dv, t)} :
             phys' = [op |-> "apply_deflection", initial_pos |-> pos,
                      initial_vel |-> vel, delta_v |-> dv,
                      time_before_impact |-> t,
                      new_pos |-> deflected.pos, new_vel |-> deflected.vel,
                      miss_distance |->
                         calculate_miss_distance(deflected.pos, deflected.vel)]
    /\ pc' = "done"
    /\ UNCHANGED <<econ, mmi, tsu, sim, kep, defl, rerun, fetch, memory_cache, now, last_set, cache_op, http>>

\* The first steps of simulate_impact: calculate_mass, calculate_kinetic_energy
\* and calculate_tnt_equivalent of an asteroid and its impact velocity.
CalculateImpactEnergy ==
    /\ pc = "idle"
    /\ \E diameter \in AsteroidDiametersM, density \in AsteroidDensities,
          velocity \in ImpactSpeedsKmS :
          \E mass \in {calculate_mass(diameter, density)} :
             \E energy \in {calculate_kinetic_energy(mass, velocity)} :
                phys' = [op |-> "calculate_tnt_equivalent",
                         diameter |-> diameter, density |-> density,
                         velocity |-> velocity, mass |-> mass,
                         impact_energy |-> energy,
                         tnt_equivalent |-> calculate_tnt_equivalent(energy)]
    /\ pc' = "done"
    /\ UNCHANGED <<econ, mmi, tsu, sim, kep, defl, rerun, fetch, memory_cache, now, last_set, cache_op, http>>

\* A direct call of PopulationImpact.calculate_population_loss.
CalculatePopulationLoss ==
    /\ pc = "idle"
    /\ \E e \in ImpactEnergiesTnt, population \in AffectedPopulations,
          d \in LossCraterDiametersKm, location \in Locations :
          phys' = [op |-> "calculate_population_loss",
                   class |-> "PopulationImpact",
                   impact_energy |-> e, affected_population |-> population,
                   crater_diameter |-> d, location |-> location,
                   result |-> PopulationImpact_calculate_population_loss(
                                 e, population, d, location.latitude,
                                 location.longitude)]
    /\ pc' = "done"
    /\ UNCHANGED <<econ, mmi, tsu, sim, kep, defl, rerun, fetch, memory_cache, now, last_set, cache_op, http>>

\* A direct call of PhysicsEngine.calculate_population_loss, which takes no
\* location.
CalculatePopulationLossOfEngine ==
    /\ pc = "idle"
    /\ \E e \in ImpactEnergiesTnt, population \in AffectedPopulations,
          d \in LossCraterDiametersKm :
          phys' = [op |-> "calculate_population_loss",
                   class |-> "PhysicsEngine",
                   impact_energy |-> e, affected_population |-> population,
                   crater_diameter |-> d,
                   location |-> [latitude |-> <<>>, longitude |-> <<>>],
                   result |-> PhysicsEngine_calculate_population_loss(
                                 e, population, d)]
    /\ pc' = "done"
    /\ UNCHANGED <<econ, mmi, tsu, sim, kep, defl, rerun, fetch, memory_cache, now, last_set, cache_op, http>>

\* kepler_to_cartesian on elements that return a state, then propagate_orbit
\* on that state.
PropagateOrbit ==
    /\ pc = "idle"
    /\ \E a \in SemiMajorAxesAU \ {0}, e \in OrbitEccentricities,
          i \in InclinationsDeg, M \in MeanAnomaliesDeg,
          dt \in PropagationSteps :
          \E state \in {kepler_to_cartesian(a, e, i, 0, 0, M)} :
             \E next \in {propagate_orbit(state.pos, state.vel, dt)} :
                phys' = [op |-> "propagate_orbit", a |-> a, e |-> e, i |-> i,
                         M |-> M, pos |-> state.pos, vel |-> state.vel,
                         dt |-> dt, new_pos |-> next.pos, new_vel |-> next.vel]
    /\ pc' = "done"
    /\ UNCHANGED <<econ, mmi, tsu, sim, kep, defl, rerun, fetch, memory_cache, now, last_set, cache_op, http>>

\* A call of _calculate_deflection_results on a scenario and a deflection
\* strategy the request models accept, with the energy of the baseline
\* impact (impact_velocity squared, in units of half the asteroid mass).
CalculateDeflectionResults ==
    /\ pc = "idle"
    /\ \E orbit \in DeflectionOrbits, direction \in DeltaVDirections,
          dv \in DeltaVs, t \in ApplicationTimes, v \in ImpactVelocities :
          LET scenario == [orbit |-> orbit, impact_latitude |-> 0,
                           impact_longitude |-> 0, impact_velocity |-> v]
              deflection == [delta_v |-> dv, delta_v_direction |-> direction,
                             application_time |-> t]
              baseline_results == [impact_energy_joules |-> v * v,
                                   exposed_population |-> 20]
          IN  \E results \in {calculate_deflection_results(scenario, deflection,
                                                           baseline_results)} :
                 defl' = [op |-> "_calculate_deflection_results",
                          scenario |-> scenario, deflection |-> deflection,
                          baseline_results |-> baseline_results,
                          miss_distance |-> results.miss_distance,
                          raised |-> results.raised,
                          failure |-> results.failure,
                          returned |-> results.returned]
    /\ pc' = "done"
    /\ UNCHANGED <<econ, mmi, tsu, sim, phys, kep, rerun, fetch, memory_cache, now, last_set, cache_op, http>>

\* POST /deflection: simulate_deflection.  The request it builds always
\* carries the deflection, so simulate_impact always answers with the result
\* of _calculate_deflection_results, and a DeflectionResults object is true.
SimulateDeflection ==
    /\ pc = "idle"
    /\ \E orbit \in DeflectionOrbits, direction \in DeltaVDirections,
          dv \in DeltaVs, v \in ImpactVelocities :
          LET scenario == [orbit |-> orbit, impact_latitude |-> 0,
                           impact_longitude |-> 0, impact_velocity |-> v]
              deflection == [delta_v |-> dv, delta_v_direction |-> direction,
                             application_time |-> 1]
              baseline_results == [impact_energy_joules |-> v * v,
                                   exposed_population |-> 0]
          IN  \E results \in {calculate_deflection_results(scenario, deflection,
                                                           baseline_results)} :
                 LET response == [deflection |-> <<results.returned>>]
                     raised_status == IF response.deflection = <<>> THEN 400
                                      ELSE 0
                 IN  http' = [op |-> "simulate_deflection",
                              deflection |-> response.deflection,
                              raised_status |-> raised_status,
                              status |-> ClientStatus(raised_status)]
    /\ pc' = "done"
    /\ UNCHANGED <<econ, mmi, tsu, sim, phys, kep, defl, rerun, fetch, memory_cache, now, last_set, cache_op>>

\* POST /impact: simulate_impact on a request, with the physics of its scenario
\* and the answer of the GeoNames service.  Each stage is computed once, in
\* the order of the code.
SimulateImpact ==
    /\ pc = "idle"
    /\ \E seismic \in BOOLEAN, tsunami \in BOOLEAN, population \in BOOLEAN,
          target \in TargetTypes, c \in CraterDiametersKm, b \in BlastRadiiKm,
          h \in SimTsunamiHeights, u \in Usernames :
          \E r \in (IF u \in {"", "demo"} THEN {[status |-> "error"]}
                    ELSE SimApiResponses) :
             LET request == [scenario |-> [impact_latitude |-> 0,
                                           impact_longitude |-> 0,
                                           target_type |-> target],
                             include_seismic |-> seismic,
                             include_tsunami |-> tsunami,
                             include_population |-> population]
                 physics == [crater_diameter |-> c * 1000, blast_radius |-> b,
                             seismic_magnitude |-> 6500, tsunami_height |-> h]
             IN  \E mmi_zones \in {SeismicZones(request, physics)},
                    ts \in {TsunamiEffects(request, physics)} :
                    \E economic_impact \in
                          {EconomicImpactOf(request, physics, ts, mmi_zones, u, r)} :
                       /\ sim' = ImpactResults(request, physics, mmi_zones, ts,
                                               economic_impact)
                       /\ econ' = economic_impact
    /\ pc' = "done"
    /\ UNCHANGED <<mmi, tsu, phys, kep, defl, rerun, fetch, memory_cache, now, last_set, cache_op, http>>

\* POST /impact twice with the same body, served one after the other by the
\* same process: the settings and the physics of the scenario are the same,
\* and the GeoNames service answers each call on its own.  sim holds the
\* first result, rerun the second, econ the last economic impact computed.
SimulateImpactRepeated ==
    /\ pc = "idle"
    /\ \E seismic \in BOOLEAN, tsunami \in BOOLEAN, population \in BOOLEAN,
          target \in {"ocean"}, c \in RepeatedCraterDiametersKm, b \in {0},
          h \in {10}, u \in Usernames :
          \E r1, r2 \in (IF u \in {"", "demo"} THEN {[status |-> "error"]}
                         ELSE SimApiResponses) :
             LET request == [scenario |-> [impact_latitude |-> 0,
                                           impact_longitude |-> 0,
                                           target_type |-> target],
                             include_seismic |-> seismic,
                             include_tsunami |-> tsunami,
                             include_population |-> population]
                 physics == [crater_diameter |-> c * 1000, blast_radius |-> b,
                             seismic_magnitude |-> 6500, tsunami_height |-> h]
             IN  \E mmi_zones \in {SeismicZones(request, physics)},
                    ts \in {TsunamiEffects(request, physics)} :
                    \E first \in
                          {EconomicImpactOf(request, physics, ts, mmi_zones, u, r1)},
                       second \in
                          {EconomicImpactOf(request, physics, ts, mmi_zones, u, r2)} :
                       /\ sim' = ImpactResults(request, physics, mmi_zones, ts,
                                               first)
                       /\ rerun' = ImpactResults(request, physics, mmi_zones, ts,
                                                 second)
                       /\ econ' = second
    /\ pc' = "done"
    /\ UNCHANGED <<mmi, tsu, phys, kep, defl, fetch, memory_cache, now, last_set, cache_op, http>>

\* Time passes.
Tick ==
    /\ pc \in {"idle", "serving"}
    /\ now < MaxClock
    /\ now' = now + 1
    /\ pc' = "serving"
    /\ http' = NoCall
    /\ UNCHANGED <<econ, mmi, tsu, sim, phys, kep, defl, rerun, fetch,
                   memory_cache, last_set, cache_op>>

\* A call of CacheService.set.
CacheSetCall ==
    /\ pc \in {"idle", "serving"}
    /\ \E key \in DirectKeys, value \in CacheValues, ttl \in Ttls :
          /\ memory_cache' = CacheSet(memory_cache, key, value, ttl, now)
          /\ last_set' = [last_set EXCEPT
                             ![key] = <<[value |-> value, expires_at |-> now + ttl]>>]
          /\ cache_op' = [op |-> "set", key |-> key, value |-> value,
                          ttl |-> ttl, at |-> now]
    /\ pc' = "serving"
    /\ http' = NoCall
    /\ UNCHANGED <<econ, mmi, tsu, sim, phys, kep, defl, rerun, fetch, now>>

\* A call of CacheService.get; the record keeps the time of the call, the
\* last set of the key and what the store holds for the key afterwards.
CacheGetCall ==
    /\ pc \in {"idle", "serving"}
    /\ \E key \in CacheKeys :
          \E got \in {CacheGet(memory_cache, key, now)} :
             /\ memory_cache' = got.store
             /\ cache_op' = [op |-> "get", key |-> key, at |-> now,
                             recent |-> last_set[key],
                             result |-> got.result,
                             stored_after |-> got.store[key]]
    /\ pc' = "serving"
    /\ http' = NoCall
    /\ UNCHANGED <<econ, mmi, tsu, sim, phys, kep, defl, rerun, fetch, now,
                   last_set>>

\* A call of CacheService.delete.
CacheDeleteCall ==
    /\ pc \in {"idle", "serving"}
    /\ \E key \in CacheKeys :
          /\ memory_cache' = CacheDelete(memory_cache, key)
          /\ last_set' = [last_set EXCEPT ![key] = <<>>]
          /\ cache_op' = [op |-> "delete", key |-> key, at |-> now]
    /\ pc' = "serving"
    /\ http' = NoCall
    /\ UNCHANGED <<econ, mmi, tsu, sim, phys, kep, defl, rerun, fetch, now>>

\* A call of CacheService.clear.
CacheClearCall ==
    /\ pc \in {"idle", "serving"}
    /\ memory_cache' = EmptyCache
    /\ last_set' = EmptyCache
    /\ cache_op' = [op |-> "clear", at |-> now]
    /\ pc' = "serving"
    /\ http' = NoCall
    /\ UNCHANGED <<econ, mmi, tsu, sim, phys, kep, defl, rerun, fetch, now>>

\* A call of NASAClient._make_request; the record keeps the time of the
\* call and the last set of its cache key before the call.
MakeRequest ==
    /\ pc \in {"idle", "serving"}
    /\ \E endpoint \in Endpoints, outcome \in HttpOutcomes :
          \E made \in {make_request(memory_cache, endpoint, now, outcome)} :
             /\ memory_cache' = made.store
             /\ last_set' =
                   IF made.stored
                   THEN [last_set EXCEPT
                            ![NasaKey(endpoint)] =
                                <<[value |-> made.result[1],
                                   expires_at |-> now + CacheTtlSeconds]>>]
                   ELSE last_set
             /\ cache_op' = [op |-> "_make_request", endpoint |-> endpoint,
                             at |-> now, recent |-> last_set[NasaKey(endpoint)],
                             http_issued |-> made.http_issued,
                             raised |-> made.raised, result |-> made.result]
    /\ pc' = "serving"
    /\ http' = NoCall
    /\ UNCHANGED <<econ, mmi, tsu, sim, phys, kep, defl, rerun, fetch, now>>

\* GET /asteroid/{asteroid_id}: get_asteroid, with the outcome of the HTTP
\* request to NASA it may issue (an HTTPError for an id NASA does not know).
GetAsteroid ==
    /\ pc \in {"idle", "serving"}
    /\ \E asteroid_id \in AsteroidIds, outcome \in HttpOutcomes :
          \E got \in {get_asteroid_by_id(memory_cache, asteroid_id, now, outcome)} :
             LET made == got.made
                 cache_key == NasaKey("neo/" \o asteroid_id)
                 raised_status == IF got.asteroid = <<>> THEN 404 ELSE 0
             IN  /\ memory_cache' = made.store
                 /\ last_set' =
                       IF made.stored
                       THEN [last_set EXCEPT
                                ![cache_key] =
                                    <<[value |-> made.result[1],
                                       expires_at |-> now + CacheTtlSeconds]>>]
                       ELSE last_set
                 /\ cache_op' = [op |-> "_make_request",
                                 endpoint |-> "neo/" \o asteroid_id,
                                 at |-> now, recent |-> last_set[cache_key],
                                 http_issued |-> made.http_issued,
                                 raised |-> made.raised, result |-> made.result]
                 /\ http' = [op |-> "get_asteroid",
                             asteroid_id |-> asteroid_id,
                             asteroid |-> got.asteroid,
                             raised_status |-> raised_status,
                             status |-> ClientStatus(raised_status)]
    /\ pc' = "serving"
    /\ UNCHANGED <<econ, mmi, tsu, sim, phys, kep, defl, rerun, fetch, now>>

\* The process is restarted: the cache is empty and the clock of the model
\* starts again.
Restart ==
    /\ pc = "serving"
    /\ pc' = "idle"
    /\ memory_cache' = EmptyCache
    /\ last_set' = EmptyCache
    /\ now' = 0
    /\ cache_op' = NoCall
    /\ http' = NoCall
    /\ UNCHANGED <<econ, mmi, tsu, sim, phys, kep, defl, rerun, fetch>>

\* The request is over; nothing of it is kept.  A request that does not use
\* the NASA client leaves the cache as it is.
Return ==
    /\ pc = "done"
    /\ pc' = "idle"
    /\ econ' = NoCall
    /\ mmi' = NoCall
    /\ tsu' = NoCall
    /\ sim' = NoCall
    /\ phys' = NoCall
    /\ kep' = NoCall
    /\ defl' = NoCall
    /\ rerun' = NoCall
    /\ fetch' = NoCall
    /\ http' = NoCall
    /\ UNCHANGED <<memory_cache, now, last_set, cache_op>>

Next ==
    \/ CalculateEconomicImpact
    \/ FetchNearbyCities
    \/ CalculateMmiZones
    \/ CalculateTsunamiZones
    \/ CalculateTsunamiHeight
    \/ CalculateCraterDiameter
    \/ CalculateSeismicMagnitude
    \/ KeplerToCartesian
    \/ SolveKeplerStart
    \/ SolveKeplerIterate
    \/ SolveKeplerReturn
    \/ ApplyDeflection
    \/ PropagateOrbit
    \/ CalculateImpactEnergy
    \/ CalculatePopulationLoss
    \/ CalculatePopulationLossOfEngine
    \/ CalculateDeflectionResults
    \/ SimulateImpact
    \/ SimulateImpactRepeated
    \/ SimulateDeflection
    \/ Tick
    \/ CacheSetCall
    \/ CacheGetCall
    \/ CacheDeleteCall
    \/ CacheClearCall
    \/ MakeRequest
    \/ GetAsteroid
    \/ Restart
    \/ Return

Spec == Init /\ [][Next]_vars

\* The loop of _solve_kepler_equation runs on its own thread of control and
\* waits for nothing: a pass or a return that can be taken is taken.
FairSpec ==
    /\ Spec
    /\ WF_vars(SolveKeplerIterate)
    /\ WF_vars(SolveKeplerReturn)

---------------------------------------------------------------------------
(* Claims about calculate_economic_impact.                                 *)

EconReturned == econ.op = "calculate_economic_impact"

RECURSIVE SumPopulation(_)
SumPopulation(cities) ==
    IF cities = <<>> THEN 0
    ELSE Head(cities).population + SumPopulation(Tail(cities))

\* The outermost extent of a call: the largest of the hazard-zone extent
\* (blast radius, twice the crater value), the tsunami and the seismic extent.
OutermostExtent(e) ==
    Max2(Max2(e.blast_radius_km, e.crater_diameter_km * 2),
         Max2(e.tsunami_radius_km, e.max_seismic_distance_km))

WithinExtent(e, city) ==
    calculate_distance(e.impact_latitude, city.latitude) <= OutermostExtent(e)

RECURSIVE CitiesWithin(_, _)
CitiesWithin(e, cities) ==
    IF cities = <<>> THEN <<>>
    ELSE IF WithinExtent(e, Head(cities))
         THEN <<Head(cities)>> \o CitiesWithin(e, Tail(cities))
         ELSE CitiesWithin(e, Tail(cities))

\* An entry of cities_affected without the two fields the loop adds.
CityOf(a) ==
    [name |-> a.name, country |-> a.country, latitude |-> a.latitude,
     population |-> a.population, gdp_per_capita |-> a.gdp_per_capita]

\* C1: every city of the fetched list within the total impact radius has one
\* entry in cities_affected, carrying exactly one of the five exposure bands,
\* and population_affected is the sum of the populations of those entries,
\* each counted once.
C1_BandsPartitionAndPopulationSum ==
    EconReturned =>
        /\ Len(econ.cities_affected) = Len(CitiesWithin(econ, econ.major_cities))
        /\ \A i \in DOMAIN econ.cities_affected :
              Cardinality({l \in ExposureLevels :
                              l = econ.cities_affected[i].exposure_level}) = 1
        /\ econ.population_affected = SumPopulation(econ.cities_affected)

\* Two affected cities in different bands, the first within both the blast
\* radius and the seismic distance.
C1_Witness ==
    /\ EconReturned
    /\ Len(econ.cities_affected) = 2
    /\ econ.cities_affected[1].exposure_level # econ.cities_affected[2].exposure_level
    /\ econ.cities_affected[1].distance_from_impact <= econ.blast_radius_km
    /\ econ.cities_affected[1].distance_from_impact <= econ.max_seismic_distance_km

\* The band the claim assigns: the crater threshold is the crater RADIUS,
\* half of the crater diameter the function is given.
ClaimedLevel(distance, crater_diameter_km, blast_radius_km) ==
    IF 2 * distance <= crater_diameter_km THEN "extreme"
    ELSE IF distance <= blast_radius_km THEN "high"
    ELSE IF distance <= blast_radius_km * 3 THEN "medium"
    ELSE IF distance <= blast_radius_km * 10 THEN "low"
    ELSE "minimal"

ClaimedMultiplier(exposure_level) ==
    CASE exposure_level = "extreme" -> 95
      [] exposure_level = "high" -> 50
      [] exposure_level = "medium" -> 20
      [] exposure_level = "low" -> 5
      [] exposure_level = "minimal" -> 1

\* C2: an in-range city is extreme exactly when its distance is <= the crater
\* radius, else high when <= the blast radius, else medium when <= 3x, else
\* low when <= 10x the blast radius, else minimal, the loss applied being
\* 0.95, 0.50, 0.20, 0.05, 0.01 of the city's GDP.
C2_BandsByCraterRadius ==
    EconReturned =>
        \A i \in DOMAIN econ.cities_affected :
            LET a == econ.cities_affected[i]
            IN  /\ a.exposure_level =
                       ClaimedLevel(a.distance_from_impact,
                                    econ.crater_diameter_km, econ.blast_radius_km)
                /\ CityLoss(CityOf(a), a.exposure_level) =
                       a.population * a.gdp_per_capita
                           * ClaimedMultiplier(a.exposure_level)

\* C3: a city of the fetched list is in cities_affected, and counts in
\* population_affected and total_economic_loss, exactly when its distance is
\* <= the outermost extent.
RECURSIVE SumLossWithin(_, _)
SumLossWithin(e, cities) ==
    IF cities = <<>> THEN 0
    ELSE LET city == Head(cities)
             d == calculate_distance(e.impact_latitude, city.latitude)
         IN  (IF d <= OutermostExtent(e)
              THEN city.population * city.gdp_per_capita
                     * LossMultiplier(ExposureLevel(d, e.crater_diameter_km,
                                                    e.blast_radius_km))
              ELSE 0) + SumLossWithin(e, Tail(cities))

C3_OnlyCitiesWithinOutermostExtent ==
    EconReturned =>
        /\ [i \in DOMAIN econ.cities_affected |-> CityOf(econ.cities_affected[i])]
               = CitiesWithin(econ, econ.major_cities)
        /\ \A i \in DOMAIN econ.cities_affected :
              econ.cities_affected[i].distance_from_impact <= OutermostExtent(econ)
        /\ econ.population_affected
               = SumPopulation(CitiesWithin(econ, econ.major_cities))
        /\ econ.total_economic_loss = SumLossWithin(econ, econ.major_cities)

\* One fetched city beyond the extent, one within it only by the seismic extent.
C3_Witness ==
    /\ EconReturned
    /\ Len(econ.major_cities) = 2
    /\ Len(econ.cities_affected) = 1
    /\ econ.cities_affected[1].distance_from_impact
           > Max2(Max2(econ.blast_radius_km, econ.crater_diameter_km * 2),
                  econ.tsunami_radius_km)

\* C4: the call never raises ZeroDivisionError; with no affected city it
\* returns population_affected = 0 and gdp_impact_percentage = 0, and with a
\* zero GDP total the percentage is the defined value 0.
C4_NoDivisionByZero ==
    EconReturned =>
        /\ econ.raised = ""
        /\ econ.gdp_impact_percentage.den # 0
        /\ econ.cities_affected = <<>> =>
              /\ econ.population_affected = 0
              /\ econ.gdp_impact_percentage.num = 0
        /\ TotalWorldGdp(econ.major_cities) = 0 =>
              econ.gdp_impact_percentage = [error |-> "", num |-> 0, den |-> 1]

\* The fetched city list is empty, so the GDP total is zero.
C4_Witness ==
    /\ EconReturned
    /\ econ.major_cities = <<>>
    /\ econ.gdp_impact_percentage.num = 0
    /\ econ.population_affected = 0

\* C5: total_economic_loss is the sum over the entries of cities_affected of
\* population x gdp_per_capita x the multiplier of the entry's band.
RECURSIVE SumLoss(_)
SumLoss(affected) ==
    IF affected = <<>> THEN 0
    ELSE Head(affected).population * Head(affected).gdp_per_capita
             * ClaimedMultiplier(Head(affected).exposure_level)
         + SumLoss(Tail(affected))

C5_LossIsSumOverAffected ==
    EconReturned => econ.total_economic_loss = SumLoss(econ.cities_affected)

\* Two affected cities in different bands, both with a loss.
C5_Witness ==
    /\ EconReturned
    /\ Len(econ.cities_affected) = 2
    /\ econ.cities_affected[1].exposure_level = "extreme"
    /\ econ.cities_affected[2].exposure_level = "low"
    /\ econ.total_economic_loss > 0

\* C6: of two affected cities the nearer one never has the smaller loss
\* multiplier, whatever the crater and blast values (crater > blast included).
C6_BandsMonotonicInDistance ==
    EconReturned =>
        \A i, j \in DOMAIN econ.cities_affected :
            econ.cities_affected[i].distance_from_impact
                <= econ.cities_affected[j].distance_from_impact
            => LossMultiplier(econ.cities_affected[i].exposure_level)
                   >= LossMultiplier(econ.cities_affected[j].exposure_level)

\* Crater value above the blast radius: a city beyond the blast radius is
\* extreme and a farther one minimal.
C6_Witness ==
    /\ EconReturned
    /\ econ.crater_diameter_km > econ.blast_radius_km
    /\ econ.blast_radius_km > 0
    /\ \E i, j \in DOMAIN econ.cities_affected :
          /\ econ.cities_affected[i].distance_from_impact
                 < econ.cities_affected[j].distance_from_impact
          /\ econ.cities_affected[i].distance_from_impact > econ.blast_radius_km
          /\ econ.cities_affected[i].exposure_level = "extreme"
          /\ econ.cities_affected[j].exposure_level = "minimal"

---------------------------------------------------------------------------
(* Claims about calculate_mmi_zones and calculate_tsunami_zones.           *)

MmiReturned == mmi.op = "calculate_mmi_zones"
TsunamiReturned == tsu.op = "calculate_tsunami_zones"

\* Along the list distance_km is strictly increasing and mmi non-increasing.
SmallestRingFirst(zones) ==
    \A k \in 1..(Len(zones) - 1) :
        /\ zones[k].distance_km < zones[k + 1].distance_km
        /\ zones[k].mmi >= zones[k + 1].mmi

\* C7 as stated: for any magnitude, epicentre and max distance the list of
\* calculate_mmi_zones has strictly increasing distance_km and non-increasing
\* mmi.
C7_MmiZonesOrderedForAnyMaxDistance ==
    MmiReturned => SmallestRingFirst(mmi.zones)

\* C7 amended: the same, for every max_distance_km > 1 (the samples run from
\* 1 km to max_distance_km, so they increase only then).
C7_MmiZonesOrderedWhenMaxDistanceAboveOne ==
    (MmiReturned /\ mmi.max_distance_km > 1) => SmallestRingFirst(mmi.zones)

\* A call with max_distance_km > 1 whose intensity falls along the list.
C7_Witness ==
    /\ MmiReturned
    /\ mmi.max_distance_km > 1
    /\ mmi.zones[1].mmi > mmi.zones[10].mmi
    /\ mmi.zones[10].mmi > mmi.zones[19].mmi

C9_NineteenZonesOfThirtyTwoVertices ==
    MmiReturned =>
        /\ Len(mmi.zones) = 19
        /\ mmi.zones[19].distance_km = 19 * mmi.max_distance_km
        /\ \A k \in DOMAIN mmi.zones :
              LET zone == mmi.zones[k]
              IN  /\ 19 * zone.distance_km
                         = 19 * 19 + k * (19 * mmi.max_distance_km - 19)
                  /\ zone.mmi \in 1..12
                  /\ Len(zone.coordinates) = 32
                  /\ \A v \in DOMAIN zone.coordinates :
                        /\ Len(zone.coordinates[v]) = 2
                        /\ zone.coordinates[v][1].axis = "lon"
                        /\ zone.coordinates[v][2].axis = "lat"
                        /\ zone.coordinates[v][1].radius = zone.distance_km

\* A magnitude above 12: the nearest zone is clamped to 12, the farthest is not.
C9_Witness ==
    /\ MmiReturned
    /\ mmi.magnitude > 12000
    /\ mmi.max_distance_km = 1000
    /\ mmi.zones[1].mmi = 12
    /\ mmi.zones[19].mmi < 12

\* C10: with max_height > 0 calculate_tsunami_zones returns 4 zones, at 80,
\* 60, 40 and 20 per cent of max_height, each with distance_km =
\* min(height x 100, max_distance_km); with max_height <= 0 it returns none.
C10_FourBandsCappedDistance ==
    TsunamiReturned =>
        IF tsu.max_height > 0
        THEN /\ Len(tsu.zones) = 4
             /\ \A k \in 1..4 :
                   /\ tsu.zones[k].height_m * 10 = tsu.max_height * (100 - 20 * k)
                   /\ tsu.zones[k].distance_km
                          = (IF tsu.zones[k].height_m <= tsu.max_distance_km
                             THEN tsu.zones[k].height_m
                             ELSE tsu.max_distance_km)
        ELSE tsu.zones = <<>>

\* Three zones capped at max_distance_km and the last one below the cap.
C10_Witness ==
    /\ TsunamiReturned
    /\ tsu.max_height > 0
    /\ Len(tsu.zones) = 4
    /\ tsu.zones[3].distance_km = tsu.max_distance_km
    /\ tsu.zones[3].height_m > tsu.max_distance_km
    /\ tsu.zones[4].distance_km = tsu.zones[4].height_m
    /\ tsu.zones[4].distance_km < tsu.max_distance_km

---------------------------------------------------------------------------
(* Claims about the scalar physics functions.                              *)

HeightReturned == phys.op = "calculate_tsunami_height"

\* A float that is a value >= 0 (not NaN, not negative).
NonNegative(x) == x.kind = "+inf" \/ (x.kind = "num" /\ x.v >= 0)

\* C11: calculate_tsunami_height returns a value >= 0 for every input; with
\* distance_to_shore = 0 it returns the initial wave height (through the
\* final max(0, .), which turns the NaN of a negative energy into 0), no
\* attenuation factor applied, and the same for every shore_slope.
C11_NonNegativeAndUnattenuatedAtShore ==
    HeightReturned =>
        /\ NonNegative(phys.result)
        /\ phys.distance_to_shore = 0 =>
              /\ phys.result = (IF phys.impact_energy < 0 THEN Num(0)
                                ELSE Num(ISqrt(10000 * phys.impact_energy)))
              /\ \A s \in ShoreSlopes :
                    calculate_tsunami_height(phys.impact_energy, phys.water_depth,
                                             0, s) = phys.result

\* A direct ocean impact with a slope whose shoaling factor would be
\* infinite, and a positive height returned.
C11_Witness ==
    /\ HeightReturned
    /\ phys.distance_to_shore = 0
    /\ phys.shore_slope = 0
    /\ phys.impact_energy > 0
    /\ phys.result = Num(20000)

MagnitudeReturned == phys.op = "calculate_seismic_magnitude"

\* C14: calculate_seismic_magnitude called with energy <= 0 reports an error
\* and returns no magnitude (in particular not -inf or NaN).
C14_NonPositiveEnergyIsAnError ==
    (MagnitudeReturned /\ phys.energy_joules <= 0) =>
        /\ phys.raised # ""
        /\ phys.result = <<>>

CraterReturned == phys.op = "calculate_crater_diameter"

\* C15: for every impact angle from 0 to 90 degrees and every energy > 0
\* the base of the sine term is strictly positive (the angle is clamped into
\* (0, 90]) and calculate_crater_diameter returns a strictly positive
\* diameter, with depth = diameter / 4 and rim height = diameter / 10.
C15_AngleClampedDiameterPositive ==
    (CraterReturned /\ phys.energy_joules > 0
                    /\ phys.impact_angle_deg \in 0..90) =>
        /\ phys.sine > 0
        /\ phys.diameter > 0
        /\ phys.depth * 4 = phys.diameter
        /\ phys.rim_height * 10 = phys.diameter

---------------------------------------------------------------------------
(* Claims about OrbitalMechanics.                                          *)

Solving == pc = "solving"
Solved == pc = "done" /\ kep.op = "_solve_kepler_equation"

\* C12: _solve_kepler_equation always terminates: it updates E at most 100
\* times, a converged E (|E - e sin E - M| below the tolerance) is returned
\* at once, a return before the cap is a converged E, and at the cap the
\* last E computed is returned, with no error.
C12_SolverTerminatesWithinCap ==
    /\ [](kep.op = "_solve_kepler_equation" => kep.iterations <= MaxIterations)
    /\ [][(Solving /\ Converged(kep.E, kep.e, kep.M))
            => (pc' = "done" /\ kep'.result = <<kep.E>>)]_vars
    /\ [](Solved =>
            /\ kep.result = <<kep.E>>
            /\ kep.iterations < MaxIterations => Converged(kep.E, kep.e, kep.M))
    /\ (Solving ~> Solved)

\* A return at the cap with an E that has not converged.
C12_Witness ==
    /\ Solved
    /\ kep.iterations = MaxIterations
    /\ ~Converged(kep.E, kep.e, kep.M)
    /\ kep.result = <<kep.E>>

CartesianReturned == phys.op = "kepler_to_cartesian"

\* Elements kepler_to_cartesian must refuse: a <= 0 or e outside [0, 1).
InvalidElements == phys.a <= 0 \/ phys.e < 0 \/ phys.e >= 4096

\* C13: kepler_to_cartesian called with a <= 0 or an eccentricity outside
\* [0, 1) fails with InvalidOrbit before the Kepler equation is solved, and
\* returns no position/velocity pair.
C13_InvalidOrbitRefusedBeforeSolving ==
    (CartesianReturned /\ InvalidElements) =>
        /\ phys.raised = "InvalidOrbit"
        /\ ~phys.kepler_solved
        /\ phys.pos = <<>>
        /\ phys.vel = <<>>

---------------------------------------------------------------------------
(* Claims about the deflection results.                                    *)

DeflectionReturned == defl.op = "_calculate_deflection_results"

\* The result reports a miss: no remaining impact probability and no new
\* impact coordinates.
ReportsMiss(results) ==
    /\ results.impact_probability.num = 0
    /\ results.new_impact_latitude = <<>>
    /\ results.new_impact_longitude = <<>>

\* C16: _calculate_deflection_results reports a miss exactly when the miss
\* distance of the deflected state is > 0; whenever it is <= 0 the result is
\* an impact of recomputed energy that carries a new impact latitude and
\* longitude.
C16_MissReportedOnlyForPositiveMissDistance ==
    DeflectionReturned =>
        /\ ReportsMiss(defl.returned) <=> defl.miss_distance > 0
        /\ defl.miss_distance <= 0 =>
              /\ defl.returned.impact_probability.num > 0
              /\ defl.returned.new_impact_latitude # <<>>
              /\ defl.returned.new_impact_longitude # <<>>

\* C17: a failure inside a simulation, the computation of the deflection
\* results included, reaches the caller as a structured failure naming its
\* kind and the offending field; it is not replaced by a placeholder result
\* received as a success.
C17_FailureReportedNotReplaced ==
    (DeflectionReturned /\ defl.raised # "") =>
        /\ defl.failure # <<>>
        /\ defl.failure[1].kind = defl.raised
        /\ defl.failure[1].field = "impact_probability"
        /\ defl.returned # MinimalDeflectionResults

DeflectionApplied == phys.op = "apply_deflection"

\* C18 as stated: for any position, velocity and lead time, the miss distance
\* of the state apply_deflection returns for a delta-v of 0 equals the miss
\* distance of the original, undeflected state.
C18_ZeroDeltaVKeepsMissDistance ==
    (DeflectionApplied /\ phys.delta_v = <<0, 0, 0>>) =>
        phys.miss_distance
            = calculate_miss_distance(phys.initial_pos, phys.initial_vel)

\* C18, amended: for a delta-v of 0 apply_deflection returns the velocity
\* unchanged and the position moved by velocity x lead time, so the miss
\* distance is that of the undeflected state propagated over the lead time;
\* it is the miss distance of the original state when the velocity or the
\* lead time is 0.
C18_ZeroDeltaVIsLinearPropagation ==
    (DeflectionApplied /\ phys.delta_v = <<0, 0, 0>>) =>
        /\ phys.new_vel = phys.initial_vel
        /\ phys.miss_distance
              = calculate_miss_distance(
                    VecAdd(phys.initial_pos,
                           VecScale(phys.initial_vel, phys.time_before_impact)),
                    phys.initial_vel)
        /\ (phys.initial_vel = <<0, 0, 0>> \/ phys.time_before_impact = 0) =>
              phys.miss_distance
                  = calculate_miss_distance(phys.initial_pos, phys.initial_vel)

\* A zero delta-v on a moving asteroid 629 km above the surface: after a lead
\* time of 1000 the miss distance is 1629 km.
C18_Witness ==
    /\ DeflectionApplied
    /\ phys.delta_v = <<0, 0, 0>>
    /\ phys.initial_pos = <<7000, 0, 0>>
    /\ phys.initial_vel = <<1, 0, 0>>
    /\ phys.time_before_impact = 1000
    /\ phys.miss_distance = 1629

---------------------------------------------------------------------------
(* Claims about simulate_impact.                                           *)

SimReturned == sim.op = "simulate_impact"

\* The seismic outputs are empty when include_seismic is cleared.
SeismicOnlyIfFlag == ~sim.request.include_seismic => sim.mmi_zones = <<>>

\* The tsunami outputs are empty when include_tsunami is cleared or the target
\* is not water.
TsunamiOnlyIfFlag ==
    ~(sim.request.include_tsunami
        /\ sim.request.scenario.target_type \in {"ocean", "oceanic_crust"}) =>
        /\ sim.tsunami_height_m = <<>>
        /\ sim.tsunami_zones = <<>>
        /\ sim.affected_coastline_km = <<>>

\* The population outputs are zero and empty when include_population is
\* cleared.
PopulationOnlyIfFlag ==
    ~sim.request.include_population =>
        /\ sim.exposed_population = 0
        /\ sim.affected_cities = <<>>

\* C19: simulate_impact computes an effect category only when its flag is
\* set; with include_seismic, include_tsunami or include_population cleared
\* the MMI zones, the tsunami height and zones, and the exposed population and
\* affected cities are empty or zero.
C19_EffectsOnlyWhenFlagSet ==
    SimReturned =>
        (SeismicOnlyIfFlag /\ TsunamiOnlyIfFlag /\ PopulationOnlyIfFlag)

Repeated == SimReturned /\ rerun.op = "simulate_impact"

\* C20: two runs of simulate_impact on the same request return the same
\* ImpactResults, whatever happens outside the request.
C20_ResultIsFunctionOfRequest ==
    (Repeated /\ rerun.request = sim.request) => rerun = sim

---------------------------------------------------------------------------
(* Claims about propagate_orbit.                                           *)

Propagated == phys.op = "propagate_orbit"

\* KeplerElements: semi_major_axis > 0 and 0 <= eccentricity < 1.
ValidElements == phys.a > 0 /\ phys.e >= 0 /\ phys.e < 4096

\* C21: for valid Kepler elements the state kepler_to_cartesian returns is a
\* fixed point of propagate_orbit with dt = 0: position and velocity are
\* returned unchanged.
C21_ZeroStepKeepsState ==
    (Propagated /\ ValidElements /\ phys.dt = 0) =>
        /\ phys.new_pos = phys.pos
        /\ phys.new_vel = phys.vel

\* A zero step from an eccentric orbit off its apsides, where the state has
\* a position and a velocity that a step of 1 changes.
C21_Witness ==
    /\ Propagated /\ ValidElements /\ phys.dt = 0
    /\ phys.e = 2048 /\ phys.M = 30
    /\ phys.new_pos = phys.pos
    /\ propagate_orbit(phys.pos, phys.vel, 1).pos # phys.pos
    /\ propagate_orbit(phys.pos, phys.vel, 1).vel # phys.vel

---------------------------------------------------------------------------
(* Claims about the impact energy.                                         *)

\* The worked example: diameter 160 m, density 3000 kg/m3, 15 km/s.
ExampleEnergyReturned ==
    /\ phys.op = "calculate_tnt_equivalent"
    /\ phys.diameter = 160 /\ phys.density = 3000 /\ phys.velocity = 15

\* value is about target: within one percent of it.
About(value, target) ==
    100 * (value - target) <= target /\ 100 * (target - value) <= target

\* C22 as stated: for diameter 160 m, density 3000 kg/m3 and velocity
\* 15,000 m/s the mass is about 6.43e9 kg, the energy about 7.23e17 J and the
\* TNT equivalent about 0.173 megatons.
C22_ExampleIsFractionOfMegaton ==
    ExampleEnergyReturned =>
        /\ About(phys.mass, 6430000)
        /\ About(phys.impact_energy, 723000000)
        /\ About(phys.tnt_equivalent, 173)

\* C22, amended: for the same inputs the mass is about 6.43e9 kg, the energy
\* about 7.23e17 J and the TNT equivalent, energy / 4.184e15, about 173
\* megatons.
C22_ExampleIsHundredsOfMegatons ==
    ExampleEnergyReturned =>
        /\ About(phys.mass, 6430000)
        /\ About(phys.impact_energy, 723000000)
        /\ About(phys.tnt_equivalent, 173000)

\* The worked example has been computed: 172.9 megatons.
C22_Witness ==
    /\ ExampleEnergyReturned
    /\ phys.mass = 6433800
    /\ phys.impact_energy = 723802500
    /\ phys.tnt_equivalent = 172992

---------------------------------------------------------------------------
(* Claims about the tsunami radius of simulate_impact.                     *)

\* The largest distance_km among the tsunami zones of the result.
LargestTsunamiDistanceKm ==
    MaxOf([k \in DOMAIN sim.tsunami_zones |-> sim.tsunami_zones[k].distance_km], 0)

\* C23: whenever simulate_impact generated tsunami zones, the tsunami radius
\* it passes to calculate_economic_impact is the largest distance_km among
\* them, and the radius is 0 only when there is no tsunami zone.
C23_TsunamiRadiusIsLargestZoneDistance ==
    SimReturned =>
        /\ sim.tsunami_zones # <<>> =>
              econ.tsunami_radius_km = LargestTsunamiDistanceKm
        /\ econ.tsunami_radius_km = 0 => sim.tsunami_zones = <<>>

---------------------------------------------------------------------------
(* Claims about fetch_nearby_cities.                                       *)

FetchReturned == fetch.op = "fetch_nearby_cities"

\* The places of the GeoNames answer that get_nearby_cities keeps.
KeptPlaces ==
    IF fetch.response.status = "ok"
    THEN SelectSeq(fetch.response.geonames,
                   LAMBDA place : place.population >= MinPopulation)
    ELSE <<>>

\* The GeoNames service was asked and returned at least one city.
ServiceGaveCities ==
    fetch.geonames_username \notin {"", "demo"} /\ KeptPlaces # <<>>

\* The rows of the fallback database within radius_km of the impact point.
FallbackInRadius ==
    SelectSeq(FALLBACK_CITIES,
              LAMBDA city : Abs(city.latitude - fetch.latitude) <= fetch.radius_km)

\* C24: fetch_nearby_cities never raises and always returns a city list: the
\* GeoNames cities only when a non-demo username is set and the service
\* returned at least one city, in every other case exactly the fallback
\* cities within radius_km; every returned city carries a gdp_per_capita.
C24_ServiceCitiesOrFallbackInRadius ==
    FetchReturned =>
        /\ fetch.raised = ""
        /\ IF ServiceGaveCities
           THEN /\ Len(fetch.cities) = Len(KeptPlaces)
                /\ \A k \in DOMAIN KeptPlaces :
                      /\ fetch.cities[k].name = KeptPlaces[k].name
                      /\ fetch.cities[k].population = KeptPlaces[k].population
           ELSE fetch.cities = FallbackInRadius
        /\ \A k \in DOMAIN fetch.cities :
              "gdp_per_capita" \in DOMAIN fetch.cities[k]

---------------------------------------------------------------------------
(* Claims about the cache.                                                 *)

GetReturned == cache_op.op = "get"

\* The last set of the key is still in force at the time of the get: it was
\* not deleted or cleared since, and now is before its set time + ttl.
LiveSet == cache_op.recent # <<>> /\ cache_op.at < cache_op.recent[1].expires_at

\* C27: in in-memory mode, after any sequence of set, get, delete and clear,
\* get(key) returns the value of the most recent set of the key if that was
\* not deleted or cleared since and the time is before its set time + ttl,
\* and None otherwise; an expired entry is never returned and the get that
\* finds it removes it from the store.
C27_GetReturnsLastLiveSet ==
    GetReturned =>
        IF LiveSet THEN cache_op.result = <<cache_op.recent[1].value>>
        ELSE cache_op.result = <<>> /\ cache_op.stored_after = <<>>

---------------------------------------------------------------------------
(* Claims about NASAClient._make_request.                                  *)

RequestMade == cache_op.op = "_make_request"

\* An earlier request for the endpoint succeeded and its TTL has not expired
\* at the time of this one (and the entry was not deleted or cleared).
RepeatWithinTtl ==
    /\ RequestMade
    /\ cache_op.recent # <<>>
    /\ cache_op.at < cache_op.recent[1].expires_at

\* C26: after one successful request for an endpoint and parameters, every
\* repeat of the request before the TTL expires is answered from the cache
\* without an HTTP request, whatever the response body was, an empty object
\* or list included.
C26_RepeatAnsweredFromCache ==
    RepeatWithinTtl =>
        /\ ~cache_op.http_issued
        /\ cache_op.result = <<cache_op.recent[1].value>>

---------------------------------------------------------------------------
(* C25: the status of an HTTPException a handler raises reaches the client *)

HandlerReturned ==
    http # NoCall /\ http.op \in {"get_asteroid", "simulate_deflection"}

\* C25: when get_asteroid raises HTTPException(404) for an asteroid that was
\* not found, or simulate_deflection raises HTTPException(400), the client
\* receives that status and not a 500.
C25_RaisedStatusReachesClient ==
    (HandlerReturned /\ http.raised_status # 0)
        => http.status = http.raised_status

---------------------------------------------------------------------------
(* C28: the deflection results are always returned and within bounds       *)

\* A fraction [num, den] that lies within [0, 1].
InUnitInterval(fraction) ==
    /\ fraction.den > 0
    /\ 0 <= fraction.num
    /\ fraction.num <= fraction.den

\* The energy of the deflected state of a call, as the try block computes it
\* from the deflected velocity.
DeflectedEnergy(call) ==
    LET orbit == call.scenario.orbit
        state == kepler_to_cartesian(orbit.semi_major_axis, orbit.eccentricity,
                                     orbit.inclination,
                                     orbit.longitude_of_ascending_node,
                                     orbit.argument_of_periapsis,
                                     orbit.mean_anomaly)
        deflected == apply_deflection(VecValue(state.pos), VecValue(state.vel),
                                      VecScale(call.deflection.delta_v_direction,
                                               call.deflection.delta_v),
                                      call.deflection.application_time)
    IN  SumSq(deflected.vel)

\* The deflected state still impacts and is faster than the baseline impact:
\* new energy / baseline energy > 1.
ComputedOutOfBounds(call) ==
    /\ call.miss_distance <= 0
    /\ DeflectedEnergy(call) > call.baseline_results.impact_energy_joules

\* C28: _calculate_deflection_results never raises; the result it returns has
\* impact_probability within [0, 1] and energy_reduction_percent within
\* [0, 100]; when the computed values are out of these bounds or a step
\* fails, it returns the fallback result (miss_distance_km 0,
\* impact_probability 1, energy_reduction_percent 0).
C28_DeflectionResultsWithinBoundsOrFallback ==
    DeflectionReturned =>
        /\ defl.failure = <<>>
        /\ InUnitInterval(defl.returned.impact_probability)
        /\ InUnitInterval(defl.returned.energy_reduction_percent)
        /\ (defl.raised # "" \/ ComputedOutOfBounds(defl)) =>
              /\ defl.returned = MinimalDeflectionResults
              /\ defl.returned.miss_distance_km = 0
              /\ defl.returned.impact_probability = [num |-> 1, den |-> 1]
              /\ defl.returned.energy_reduction_percent.num = 0

\* A deflected state that still impacts, faster than the baseline: the
\* fallback result was returned.
C28_Witness ==
    /\ DeflectionReturned
    /\ ComputedOutOfBounds(defl)
    /\ defl.raised = "ValidationError"
    /\ defl.returned = MinimalDeflectionResults

---------------------------------------------------------------------------
(* C29: the economic loss is at most 95 percent of the GDP considered      *)

\* Every city considered has a population and a GDP per capita >= 0.
NonNegativeCities(cities) ==
    \A k \in DOMAIN cities :
        cities[k].population >= 0 /\ cities[k].gdp_per_capita >= 0

\* C29: for a city list with non-negative populations and GDP-per-capita
\* values, total_economic_loss is at most 0.95 x the sum of
\* population x GDP per capita over the cities considered, so
\* gdp_impact_percentage lies within [0, 95].  The loss is carried in
\* hundredths and the percentage as the fraction num / den.
C29_LossAtMostNinetyFivePercent ==
    (EconReturned /\ NonNegativeCities(econ.major_cities)) =>
        /\ econ.total_economic_loss >= 0
        /\ econ.total_economic_loss <= 95 * TotalWorldGdp(econ.major_cities)
        /\ econ.gdp_impact_percentage.den > 0
        /\ econ.gdp_impact_percentage.num >= 0
        /\ econ.gdp_impact_percentage.num <= 95 * econ.gdp_impact_percentage.den

\* Every city considered lies within the crater diameter: the loss is the
\* whole 95 percent.
C29_Witness ==
    /\ EconReturned
    /\ NonNegativeCities(econ.major_cities)
    /\ Len(econ.cities_affected) = Len(econ.major_cities)
    /\ econ.cities_affected # <<>>
    /\ econ.cities_affected[1].exposure_level = "extreme"
    /\ econ.total_economic_loss > 0
    /\ econ.gdp_impact_percentage.num = 95 * econ.gdp_impact_percentage.den

---------------------------------------------------------------------------
(* C30: the population loss is within the affected population              *)

PopulationLossReturned == phys.op = "calculate_population_loss"

\* C30: calculate_population_loss, of either class, returns an integer with
\* 0 <= result <= max(affected_population, 0), and 0 whenever
\* affected_population <= 0.
C30_LossWithinAffectedPopulation ==
    PopulationLossReturned =>
        /\ phys.result \in Int
        /\ 0 <= phys.result
        /\ phys.result <= Max2(phys.affected_population, 0)
        /\ phys.affected_population <= 0 => phys.result = 0

====
